---- MODULE Spec2Model ----
(***************************************************************************)
(* The video export server (src/server/index.js) and the client's export  *)
(* service (src/src/services/videoExportService.ts) as a state machine.   *)
(*                                                                         *)
(* A file name is a sequence of segments, the pieces a string falls into  *)
(* when it is split at "/"; a segment is a string.  A path is the         *)
(* sequence of segments of an absolute, normalised file name.  Every      *)
(* await of a handler is a point where the other handlers, the sweep and  *)
(* the clock may run: a handler is one action per stretch of code between *)
(* two awaits.  Time is counted in hours.                                 *)
(***************************************************************************)
EXTENDS Integers, Sequences, FiniteSets, TLC

VARIABLES now, fs, nextUuid, reqs, sweep, dl, dels, faults, cmd, ed

vars == <<now, fs, nextUuid, reqs, sweep, dl, dels, faults, cmd, ed>>

(***************************************************************************)
(* Bounds of the model.                                                    *)
(***************************************************************************)
MaxUploads == 1
MaxFetch == 1
MaxAssets == 2
MaxBatch == 3
MaxFaults == 1
MaxNow == 36
TickStep == 12
MaxCap == 2
MaxOverlays == 2
MaxText == 3
MaxVideos == 1
\* the export button is clicked at most MaxExports times
MaxExports == 2
\* videos are uploaded to the list at most MaxList times
MaxList == 4

(***************************************************************************)
(* Program constants.                                                      *)
(***************************************************************************)
maxAge == 24
\* The editor counts time in tenths of a second.
\* maxDuration of 300 seconds: no limit
noLimit == 3000
\* duration - 0.5 of handleMaxDurationChange
epsilon == 5
\* Math.min(5, effectiveDuration) of a new overlay
defaultEnd == 50

serverDir == <<"server">>
uploadsDir == serverDir \o <<"uploads">>
outputDir == serverDir \o <<"output">>
\* the server's source file, in __dirname
serverFile == serverDir \o <<"index.js">>

(***************************************************************************)
(* Strings and paths.                                                      *)
(***************************************************************************)
Front(s) == SubSeq(s, 1, Len(s) - 1)
Last(s) == s[Len(s)]

\* String concatenation on names split at "/": the last segment of s and the
\* first segment of t become one segment.
StrCat(s, t) == Front(s) \o <<Last(s) \o t[1]>> \o SubSeq(t, 2, Len(t))

RECURSIVE Normalize(_, _)
\* path.normalize, segment by segment: "" and "." are dropped, ".." removes
\* the segment before it.
Normalize(acc, rest) ==
  IF rest = <<>> THEN acc
  ELSE LET s == rest[1]
           t == SubSeq(rest, 2, Len(rest))
       IN IF s = "" \/ s = "." THEN Normalize(acc, t)
          ELSE IF s = ".." THEN Normalize(IF acc = <<>> THEN acc ELSE Front(acc), t)
          ELSE Normalize(Append(acc, s), t)

pathJoin(dir, name) == Normalize(<<>>, dir \o name)

uuidv4Fixed(n) == <<"u0">>
\* uuidv4(): the n-th token drawn; two draws never give the same token.
uuidv4(n) == <<"u" \o ToString(n)>>

\* multer's diskStorage filename: `${uuidv4()}-${file.originalname}`
uniqueName(n, originalname) == StrCat(StrCat(uuidv4(n), <<"-">>), originalname)

\* `processed-${name}-${uuidv4()}.mp4`
outputFilenameOf(name, n) ==
  StrCat(StrCat(StrCat(StrCat(<<"processed-">>, name), <<"-">>), uuidv4(n)), <<".mp4">>)

\* videoName || 'video'
OrVideo(name) == IF name = <<"">> THEN <<"video">> ELSE name

(***************************************************************************)
(* The file system: fs maps each existing path to its last-modified time  *)
(* and to what it holds.  dels counts, for every path, the deletions that *)
(* removed a file there, by the request handlers and by the sweep.        *)
(***************************************************************************)
exists(p) == p \in DOMAIN fs

writeFile(f, p, data, t) ==
  [q \in DOMAIN f \cup {p} |-> IF q = p THEN [mtime |-> t, data |-> data] ELSE f[q]]

unlink(f, ps) == [q \in DOMAIN f \ ps |-> f[q]]

delsOf(d, p) == IF p \in DOMAIN d THEN d[p] ELSE [handler |-> 0, sweep |-> 0]

\* dels after removing the paths ps that exist in f, by who.
countDels(d, f, ps, who) ==
  LET hit == ps \cap DOMAIN f
  IN [q \in DOMAIN d \cup hit |->
        IF q \in hit
        THEN IF who = "sweep"
             THEN [delsOf(d, q) EXCEPT !.sweep = @ + 1]
             ELSE [delsOf(d, q) EXCEPT !.handler = @ + 1]
        ELSE d[q]]

\* fs.readdir(dir): the files that are direct children of dir
readdir(f, dir) == {p \in DOMAIN f : Len(p) = Len(dir) + 1 /\ Front(p) = dir}

SeqRange(s) == {s[k] : k \in 1..Len(s)}

(***************************************************************************)
(* Values: a number, a string, undefined or NaN.                          *)
(***************************************************************************)
Num(n) == [t |-> "number", n |-> n, s |-> ""]
Str(s) == [t |-> "string", n |-> 0, s |-> s]
undefined == [t |-> "undefined", n |-> 0, s |-> ""]
NaN == [t |-> "NaN", n |-> 0, s |-> ""]

(***************************************************************************)
(* Submissions.  A submission carries its uploaded parts (files), what    *)
(* the caller calls each asset (names) and the metadata as it reaches the *)
(* server (wire): as the client builds it, unparseable, one entry short   *)
(* or one entry long.                                                      *)
(***************************************************************************)
Names == {<<"a">>, <<"", "..", "..", "uploads", "b">>}
Mimetypes == {"video/mp4", "text/plain"}
OriginalName == <<"v.mp4">>
Wires == {"built", "malformed", "short", "long"}

NoResponse == [status |-> 0, error |-> "", filename |-> <<>>]

\* The metadata of a video: its name, its overlays (an overlay is told by
\* its text alone here) and its maxDuration.
VideoData(name, textOverlays, maxDuration) ==
  [name |-> name, textOverlays |-> textOverlays, maxDuration |-> maxDuration]

NoVideoData == VideoData(<<>>, <<>>, undefined)

NewJob == [state |-> "Queued", videoData |-> NoVideoData, inputPath |-> <<>>, outputFilename |-> <<>>,
           outputPath |-> <<>>, probes |-> 0, probed |-> "none", encodes |-> 0,
           wrote |-> FALSE, rmFault |-> FALSE, failedAt |-> "none"]

NewReq(kind) ==
  [kind |-> kind, mimes |-> <<>>, names |-> <<>>, wire |-> "built",
   pc |-> "upload", files |-> <<>>, i |-> 0, jobs |-> <<>>,
   results |-> <<>>, errors |-> <<>>, err |-> "", outerFault |-> FALSE,
   response |-> NoResponse]

\* The k-th video that the editor exports, as the caller names it: every
\* video has overlays and a maxDuration of its own.
clientVideo(names, k) == VideoData(names[k], <<[text |-> names[k]]>>, Num(k))

\* clientVideosData as it would be if the client sent the metadata in another
\* order than the files: last video first.
clientVideosDataReversed(names) ==
  [k \in 1..Len(names) |-> clientVideo(names, Len(names) + 1 - k)]

\* exportMultipleVideos: videosData = videos.map(video => ({name,
\* textOverlays, maxDuration})), in the order in which the files are appended
\* (lines 78-88)
clientVideosData(names) == [k \in 1..Len(names) |-> clientVideo(names, k)]

\* The videosData the server parses (JSON.parse(videosData || '[]')).
videosOf(rq) ==
  CASE rq.wire = "short" -> Front(clientVideosData(rq.names))
    [] rq.wire = "long" -> Append(clientVideosData(rq.names), VideoData(<<"a">>, <<>>, undefined))
    [] OTHER -> clientVideosData(rq.names)

TotalUploads == LET RECURSIVE Sum(_)
                    Sum(k) == IF k = 0 THEN 0 ELSE Len(reqs[k].mimes) + Sum(k - 1)
                IN Sum(Len(reqs))

\* A caller opens a submission; at most maxReq are opened in all.
Submit(kind, maxReq) ==
  /\ Len(reqs) < maxReq
  /\ reqs' = Append(reqs, NewReq(kind))
  /\ UNCHANGED <<now, fs, nextUuid, sweep, dl, dels, faults>>
  /\ UNCHANGED <<cmd, ed>>

(***************************************************************************)
(* multer: upload.single('video') and upload.array('videos', 10).         *)
(***************************************************************************)
fileFilterAny(mimetype) == TRUE
\* fileFilter: file.mimetype.startsWith('video/')
fileFilter(mimetype) == mimetype \in {"video/mp4"}

\* The next part of the upload arrives, an asset of the given content type
\* that the caller calls name: it is stored under a unique name in the
\* uploads directory, or it is refused and the upload is aborted.  At most
\* maxUploads parts arrive in all.
UploadFile(r, mimetype, name, maxUploads) ==
  LET rq == reqs[r]
      p == pathJoin(uploadsDir, uniqueName(nextUuid, OriginalName))
      got == [rq EXCEPT !.mimes = Append(@, mimetype), !.names = Append(@, name)]
  IN /\ rq.pc = "upload"
     /\ TotalUploads < maxUploads
     /\ rq.kind = "single" => rq.mimes = <<>>
     /\ IF fileFilter(mimetype)
        THEN /\ fs' = writeFile(fs, p, "input", now)
             /\ nextUuid' = nextUuid + 1
             /\ reqs' = [reqs EXCEPT ![r] = [got EXCEPT !.files = Append(@, p)]]
        ELSE /\ reqs' = [reqs EXCEPT ![r] = [got EXCEPT !.pc = "uploadAbort"]]
             /\ UNCHANGED <<fs, nextUuid>>
     /\ UNCHANGED <<now, sweep, dl, dels, faults>>
     /\ UNCHANGED <<cmd, ed>>

\* multer removes what it stored and hands the error to the error
\* middleware, which answers 500; the route handler is not called.
UploadAbort(r) ==
  LET rq == reqs[r]
  IN /\ rq.pc = "uploadAbort"
     /\ fs' = unlink(fs, SeqRange(rq.files))
     /\ dels' = countDels(dels, fs, SeqRange(rq.files), "handler")
     /\ reqs' = [reqs EXCEPT ![r].pc = "done",
                             ![r].response = [NoResponse EXCEPT !.status = 500,
                                                !.error = "Internal server error"]]
     /\ UNCHANGED <<now, nextUuid, sweep, dl, faults>>
     /\ UNCHANGED <<cmd, ed>>

(***************************************************************************)
(* The route handlers of POST /api/process-video and /api/process-batch.  *)
(***************************************************************************)
Respond(rq, status, error, filename) ==
  [rq EXCEPT !.pc = "done",
             !.response = [status |-> status, error |-> error, filename |-> filename]]

\* The requested name of item i: videoName || 'video' of a single
\* submission, videos[i].name of a batch.
requestedName(rq, i) ==
  IF rq.kind = "single" THEN OrVideo(rq.names[1]) ELSE videosOf(rq)[i].name

\* What the handler takes for the metadata of item i: videoName, textOverlays
\* and maxDuration of req.body in a single submission (line 105), videoData
\* = videos[i] in a batch (line 213).
videoDataOf(rq, i) ==
  IF rq.kind = "single"
  THEN VideoData(requestedName(rq, i), clientVideo(rq.names, 1).textOverlays,
                 clientVideo(rq.names, 1).maxDuration)
  ELSE videosOf(rq)[i]

\* BeginItem as it would be if the loop did not wait for an item before it
\* went on to the next: item i and every item after it are started at once.
BeginItemAll(rq, i, n) ==
  IF i > Len(rq.files) THEN Respond(rq, 200, "", <<>>)
  ELSE IF i > Len(videosOf(rq))
  THEN [rq EXCEPT !.pc = "outerCatch", !.i = i, !.err = "TypeError"]
  ELSE [rq EXCEPT !.pc = "probing", !.i = i,
                  !.jobs = [k \in 1..Len(rq.jobs) |->
                     IF k >= i /\ k <= Len(videosOf(rq))
                     THEN LET name == outputFilenameOf(requestedName(rq, k), n)
                          IN [rq.jobs[k] EXCEPT !.state = "Probing",
                                                !.outputFilename = name,
                                                !.outputPath = pathJoin(outputDir, name),
                                                !.probes = @ + 1]
                     ELSE rq.jobs[k]]]

\* The code from the top of the loop body of item i up to its first await
\* (lines 211-226), or the response when the loop is over (lines 289-295).
\* A missing videos[i] throws inside the try and again inside its catch
\* (both read videoData.name), which leaves the loop for the outer catch.
BeginItem(rq, i, n) ==
  IF i > Len(rq.files) THEN Respond(rq, 200, "", <<>>)
  ELSE IF i > Len(videosOf(rq))
  THEN [rq EXCEPT !.pc = "outerCatch", !.i = i, !.err = "TypeError"]
  ELSE LET videoData == videoDataOf(rq, i)
           name == outputFilenameOf(videoData.name, n)
       IN [rq EXCEPT !.pc = "probing", !.i = i,
                     !.jobs[i] = [@ EXCEPT !.state = "Probing",
                                           !.videoData = videoData,
                                           !.outputFilename = name,
                                           !.outputPath = pathJoin(outputDir, name),
                                           !.probes = @ + 1]]

\* BeginItem draws one token when it names an output file.
DrawsToken(rq, i) == i <= Len(rq.files) /\ i <= Len(videosOf(rq))

QueuedJobs(files) == [k \in 1..Len(files) |-> [NewJob EXCEPT !.inputPath = files[k]]]

\* An fs.remove resolves (ok) or rejects; the file system rejects at most
\* MaxFaults removals.
Rejects(ok) ==
  /\ ~ok => faults < MaxFaults
  /\ faults' = IF ok THEN faults ELSE faults + 1

\* Fail as it would be if the per-item catch rethrew: the failure of one job
\* leaves the loop for the outer catch.
FailAborts(rq, stage, msg) ==
  [rq EXCEPT !.pc = "outerCatch", !.err = msg,
             !.jobs[rq.i] = [@ EXCEPT !.state = "Failed", !.failedAt = stage]]

\* Fail as it would be if the catch tagged the error with the name of the
\* first entry of the metadata.
FailFirstName(rq, stage, msg) ==
  [rq EXCEPT !.pc = "cleanup", !.err = msg,
             !.jobs[rq.i] = [@ EXCEPT !.failedAt = stage],
             !.errors = IF rq.kind = "batch"
                        THEN Append(@, [idx |-> rq.i,
                                        originalName |-> videosOf(rq)[1].name,
                                        error |-> msg])
                        ELSE @]

\* The catch of a job: the catch of the single handler (lines 182-188), the
\* per-item catch of the batch loop (lines 277-285).  Both end at an awaited
\* fs.remove of the input.
Fail(rq, stage, msg) ==
  [rq EXCEPT !.pc = "cleanup", !.err = msg,
             !.jobs[rq.i] = [@ EXCEPT !.failedAt = stage],
             !.errors = IF rq.kind = "batch"
                        THEN Append(@, [idx |-> rq.i,
                                        originalName |-> videosOf(rq)[rq.i].name,
                                        error |-> msg])
                        ELSE @]

\* The upload is complete and the route handler runs up to its first await;
\* wire is the form in which the metadata has reached the server.
HandlerStart(r, wire) ==
  LET rq == [reqs[r] EXCEPT !.wire = wire]
      q0 == [rq EXCEPT !.jobs = QueuedJobs(rq.files)]
  IN /\ rq.pc = "upload"
     /\ rq.kind = "single" \/ rq.files = <<>> => wire \in {"built", "malformed"}
     /\ rq.files = <<>> => wire = "built"
     /\ IF rq.files = <<>>
        THEN /\ reqs' = [reqs EXCEPT ![r] =
                  Respond(rq, 400, IF rq.kind = "single" THEN "No video file provided"
                                   ELSE "No video files provided", <<>>)]
             /\ UNCHANGED nextUuid
        ELSE IF rq.wire = "malformed"
        THEN /\ reqs' = [reqs EXCEPT ![r] =
                  IF rq.kind = "single"
                  THEN Fail([q0 EXCEPT !.i = 1], "parse", "SyntaxError")
                  ELSE [q0 EXCEPT !.pc = "outerCatch", !.err = "SyntaxError"]]
             /\ UNCHANGED nextUuid
        ELSE /\ reqs' = [reqs EXCEPT ![r] = BeginItem(q0, 1, nextUuid)]
             /\ nextUuid' = IF DrawsToken(q0, 1) THEN nextUuid + 1 ELSE nextUuid
     /\ UNCHANGED <<now, fs, sweep, dl, dels, faults>>
     /\ UNCHANGED <<cmd, ed>>

ProbeOutcomes == {"ok", "error", "novideo"}
CompileOutcomes == {"ok", "throws"}

\* ProbeDone as it would be if the handler did not read the size of the
\* video stream: a probe that finds no video stream goes on to the encoder.
ProbeDoneAnyway(r, probe, compile) ==
  LET rq == [reqs[r] EXCEPT !.jobs[reqs[r].i].probed = probe]
  IN /\ rq.pc = "probing"
     /\ probe # "error" => exists(rq.jobs[rq.i].inputPath)
     /\ reqs' = [reqs EXCEPT ![r] =
          CASE probe = "error" -> Fail(rq, "probe", "ffprobe error")
            [] compile = "throws" -> Fail(rq, "compile", "TypeError")
            [] OTHER -> [rq EXCEPT !.pc = "encoding",
                                   !.jobs[rq.i] = [@ EXCEPT !.state = "Encoding",
                                                            !.encodes = @ + 1]]]
     /\ UNCHANGED <<now, fs, nextUuid, sweep, dl, dels, faults>>
     /\ UNCHANGED <<cmd, ed>>

\* ffprobe calls back (lines 114-123); on success the filters are compiled
\* and the encoder is started (lines 125-171), all without an await.
ProbeDone(r, probe, compile) ==
  LET rq == [reqs[r] EXCEPT !.jobs[reqs[r].i].probed = probe]
  IN /\ rq.pc = "probing"
     /\ probe = "ok" => exists(rq.jobs[rq.i].inputPath)
     /\ reqs' = [reqs EXCEPT ![r] =
          CASE probe = "error" -> Fail(rq, "probe", "ffprobe error")
            [] probe = "novideo" -> Fail(rq, "probe", "TypeError")
            [] compile = "throws" -> Fail(rq, "compile", "TypeError")
            [] OTHER -> [rq EXCEPT !.pc = "encoding",
                                   !.jobs[rq.i] = [@ EXCEPT !.state = "Encoding",
                                                            !.encodes = @ + 1]]]
     /\ UNCHANGED <<now, fs, nextUuid, sweep, dl, dels, faults>>
     /\ UNCHANGED <<cmd, ed>>

\* The encoder writes to its output file.
EncodeWrite(r) ==
  LET rq == reqs[r]
      job == rq.jobs[rq.i]
  IN /\ rq.pc = "encoding"
     /\ job.wrote => exists(job.outputPath)
     /\ fs' = writeFile(fs, job.outputPath, "partial", now)
     /\ reqs' = [reqs EXCEPT ![r].jobs[rq.i].wrote = TRUE]
     /\ UNCHANGED <<now, nextUuid, sweep, dl, dels, faults>>
     /\ UNCHANGED <<cmd, ed>>

\* The encoder emits 'end': the output file is complete and the handler goes
\* on to its awaited fs.remove(inputPath) (line 174, line 268).
EncodeEnd(r) ==
  LET rq == reqs[r]
      job == rq.jobs[rq.i]
  IN /\ rq.pc = "encoding"
     /\ job.wrote => exists(job.outputPath)
     /\ fs' = writeFile(fs, job.outputPath, "complete", now)
     /\ reqs' = [reqs EXCEPT ![r].pc = "removing", ![r].jobs[rq.i].wrote = FALSE]
     /\ UNCHANGED <<now, nextUuid, sweep, dl, dels, faults>>
     /\ UNCHANGED <<cmd, ed>>

\* The encoder emits 'error': the promise rejects into the catch, which
\* leaves whatever the encoder wrote where it is.
EncodeError(r) ==
  LET rq == reqs[r]
  IN /\ rq.pc = "encoding"
     /\ reqs' = [reqs EXCEPT ![r] =
          Fail([rq EXCEPT !.jobs[rq.i].wrote = FALSE], "encode", "ffmpeg error")]
     /\ UNCHANGED <<now, fs, nextUuid, sweep, dl, dels, faults>>
     /\ UNCHANGED <<cmd, ed>>

\* The fs.remove(inputPath) after a successful encode settles (line 174,
\* line 268).  Resolved: the job is Completed, its result is reported (lines
\* 176-180) or pushed (lines 270-275) and the loop goes on.  Rejected: the
\* catch of the job runs.
RemoveDone(r, ok) ==
  LET rq == reqs[r]
      job == rq.jobs[rq.i]
      done == [rq EXCEPT !.jobs[rq.i].state = "Completed"]
      pushed == [done EXCEPT !.results = Append(@, [idx |-> rq.i,
                                     originalName |-> videosOf(rq)[rq.i].name,
                                     filename |-> job.outputFilename])]
  IN /\ rq.pc = "removing"
     /\ Rejects(ok)
     /\ IF ok
        THEN /\ fs' = unlink(fs, {job.inputPath})
             /\ dels' = countDels(dels, fs, {job.inputPath}, "handler")
             /\ IF rq.kind = "single"
                THEN /\ reqs' = [reqs EXCEPT ![r] = Respond(done, 200, "", job.outputFilename)]
                     /\ UNCHANGED nextUuid
                ELSE /\ reqs' = [reqs EXCEPT ![r] = BeginItem(pushed, rq.i + 1, nextUuid)]
                     /\ nextUuid' = IF DrawsToken(pushed, rq.i + 1)
                                    THEN nextUuid + 1 ELSE nextUuid
        ELSE /\ reqs' = [reqs EXCEPT ![r] =
                  Fail([rq EXCEPT !.jobs[rq.i].rmFault = TRUE], "remove", "remove error")]
             /\ UNCHANGED <<fs, dels, nextUuid>>
     /\ UNCHANGED <<now, sweep, dl>>
     /\ UNCHANGED <<cmd, ed>>

\* CleanupDone as it would be if the catch did not remove the input.
CleanupKeeps(r, ok) ==
  LET rq == reqs[r]
      done == [rq EXCEPT !.jobs[rq.i] = [@ EXCEPT !.state = "Failed",
                                                  !.rmFault = @ \/ ~ok]]
  IN /\ rq.pc = "cleanup"
     /\ Rejects(ok)
     /\ UNCHANGED <<fs, dels>>
     /\ IF rq.kind = "single"
        THEN /\ reqs' = [reqs EXCEPT ![r] = Respond(done, 500, "Video processing failed", <<>>)]
             /\ UNCHANGED nextUuid
        ELSE /\ reqs' = [reqs EXCEPT ![r] = BeginItem(done, rq.i + 1, nextUuid)]
             /\ nextUuid' = IF DrawsToken(done, rq.i + 1) THEN nextUuid + 1 ELSE nextUuid
     /\ UNCHANGED <<now, sweep, dl>>
     /\ UNCHANGED <<cmd, ed>>

\* The fs.remove of the catch settles (line 187, line 285; a rejection is
\* swallowed by .catch(() => {})).  The job is Failed; the single handler
\* answers 500 (lines 190-193), the batch loop goes on.
CleanupDone(r, ok) ==
  LET rq == reqs[r]
      job == rq.jobs[rq.i]
      done == [rq EXCEPT !.jobs[rq.i] = [@ EXCEPT !.state = "Failed",
                                                  !.rmFault = @ \/ ~ok]]
  IN /\ rq.pc = "cleanup"
     /\ Rejects(ok)
     /\ IF ok
        THEN /\ fs' = unlink(fs, {job.inputPath})
             /\ dels' = countDels(dels, fs, {job.inputPath}, "handler")
        ELSE UNCHANGED <<fs, dels>>
     /\ IF rq.kind = "single"
        THEN /\ reqs' = [reqs EXCEPT ![r] = Respond(done, 500, "Video processing failed", <<>>)]
             /\ UNCHANGED nextUuid
        ELSE /\ reqs' = [reqs EXCEPT ![r] = BeginItem(done, rq.i + 1, nextUuid)]
             /\ nextUuid' = IF DrawsToken(done, rq.i + 1) THEN nextUuid + 1 ELSE nextUuid
     /\ UNCHANGED <<now, sweep, dl>>
     /\ UNCHANGED <<cmd, ed>>

\* OuterCatch as it would be without its loop over req.files.
OuterCatchKeeps(r, ok) ==
  LET rq == reqs[r]
  IN /\ rq.pc = "outerCatch"
     /\ Rejects(ok)
     /\ UNCHANGED <<fs, dels>>
     /\ reqs' = [reqs EXCEPT ![r] =
          Respond([rq EXCEPT !.outerFault = ~ok], 500, "Batch processing failed", <<>>)]
     /\ UNCHANGED <<now, nextUuid, sweep, dl>>
     /\ UNCHANGED <<cmd, ed>>

\* The outer catch of the batch handler (lines 297-311): every uploaded file
\* is removed (rejections swallowed), then the call is answered 500.
OuterCatch(r, ok) ==
  LET rq == reqs[r]
  IN /\ rq.pc = "outerCatch"
     /\ Rejects(ok)
     /\ IF ok
        THEN /\ fs' = unlink(fs, SeqRange(rq.files))
             /\ dels' = countDels(dels, fs, SeqRange(rq.files), "handler")
        ELSE UNCHANGED <<fs, dels>>
     /\ reqs' = [reqs EXCEPT ![r] =
          Respond([rq EXCEPT !.outerFault = ~ok], 500, "Batch processing failed", <<>>)]
     /\ UNCHANGED <<now, nextUuid, sweep, dl>>
     /\ UNCHANGED <<cmd, ed>>

(***************************************************************************)
(* The encoder command of a job: what the handlers do between the answer  *)
(* of ffprobe and the start of the encoder (lines 121-150, 228-256), and  *)
(* createTextFilter.  A compiled filter is the sequence of the pieces of  *)
(* its string: each of ' : , = and \ is a piece of its own, a run of      *)
(* other characters is one piece.  An overlay text is a sequence of       *)
(* characters.  A value is a number, a string, undefined or NaN.          *)
(***************************************************************************)
Numbers == -1..(MaxCap + 1)

\* Number.prototype.toString and `${n}` of a whole number
toString(n) == ToString(n)

\* parseFloat of a form field: the number a decimal string stands for, NaN
\* for any other string
parseFloat(s) ==
  IF \E n \in Numbers : toString(n) = s
  THEN Num(CHOOSE n \in Numbers : toString(n) = s)
  ELSE NaN

\* what an if, a && or a ?: takes for true
Truthy(v) ==
  CASE v.t = "number" -> v.n # 0
    [] v.t = "string" -> v.s # ""
    [] OTHER -> FALSE

\* v > 0
Positive(v) == v.t = "number" /\ v.n > 0

RECURSIVE replaceAll(_, _, _)
\* String.prototype.replace(/c/g, by) on a sequence of characters
replaceAll(text, c, by) ==
  IF text = <<>> THEN <<>>
  ELSE (IF text[1] = c THEN by ELSE <<text[1]>>)
         \o replaceAll(SubSeq(text, 2, Len(text)), c, by)

\* escapedText as it would be if the backslashes were escaped first.
escapedTextFull(text) ==
  replaceAll(replaceAll(replaceAll(text, "\\", <<"\\", "\\">>), "'", <<"\\", "'">>),
             ":", <<"\\", ":">>)

\* escapedText as it would be without the replacement of the colons.
escapedTextQuotes(text) == replaceAll(text, "'", <<"\\", "'">>)

\* overlay.text.replace(/'/g, "\\'").replace(/:/g, "\\:")   (line 60)
escapedText(text) ==
  replaceAll(replaceAll(text, "'", <<"\\", "'">>), ":", <<"\\", ":">>)

\* round as it would be if it cut the fraction off (Math.floor, parseInt).
roundDown(a, b) == a \div b

\* Math.round(a / b) for b > 0: the nearest whole number, halves upwards
round(a, b) == (2 * a + b) \div (2 * b)

\* createTextFilter as it would be if it took every outlineWidth but 0 for an
\* outline: if (overlay.outlineWidth).
createTextFilterTruthy(overlay, videoWidth, videoHeight) ==
  LET x == round(overlay.x * videoWidth, 100)
      y == round(overlay.y * videoHeight, 100)
      fontSize == round(overlay.fontSize * videoWidth, 400)
  IN <<"drawtext", "=", "text", "=", "'">> \o escapedText(overlay.text.chars)
       \o <<"'", ":", "x", "=", toString(x), ":", "y", "=", toString(y),
            ":", "fontsize", "=", toString(fontSize),
            ":", "fontcolor", "=", overlay.color>>
       \o (IF overlay.outlineWidth # 0
           THEN <<":", "borderw", "=", toString(overlay.outlineWidth),
                  ":", "bordercolor", "=", overlay.outlineColor>>
           ELSE <<>>)
       \o (IF overlay.fontFamily # "" /\ overlay.fontFamily # "Inter"
           THEN <<":", "fontfile", "=",
                  "/System/Library/Fonts/" \o overlay.fontFamily \o ".ttf">>
           ELSE <<>>)
       \o <<":", "enable", "=", "'", "between(t", ",", toString(overlay.startTime),
            ",", toString(overlay.endTime) \o ")", "'">>

\* createTextFilter (lines 54-78); throws when overlay.text is undefined.
Throws(overlay) == ~overlay.text.defined

createTextFilter(overlay, videoWidth, videoHeight) ==
  LET x == round(overlay.x * videoWidth, 100)
      y == round(overlay.y * videoHeight, 100)
      fontSize == round(overlay.fontSize * videoWidth, 400)
  IN <<"drawtext", "=", "text", "=", "'">> \o escapedText(overlay.text.chars)
       \o <<"'", ":", "x", "=", toString(x), ":", "y", "=", toString(y),
            ":", "fontsize", "=", toString(fontSize),
            ":", "fontcolor", "=", overlay.color>>
       \o (IF overlay.outlineWidth > 0
           THEN <<":", "borderw", "=", toString(overlay.outlineWidth),
                  ":", "bordercolor", "=", overlay.outlineColor>>
           ELSE <<>>)
       \o (IF overlay.fontFamily # "" /\ overlay.fontFamily # "Inter"
           THEN <<":", "fontfile", "=",
                  "/System/Library/Fonts/" \o overlay.fontFamily \o ".ttf">>
           ELSE <<>>)
       \o <<":", "enable", "=", "'", "between(t", ",", toString(overlay.startTime),
            ",", toString(overlay.endTime) \o ")", "'">>

RECURSIVE join(_, _)
\* Array.prototype.join
join(filters, sep) ==
  IF filters = <<>> THEN <<>>
  ELSE IF Len(filters) = 1 THEN filters[1]
  ELSE filters[1] \o <<sep>> \o join(SubSeq(filters, 2, Len(filters)), sep)

\* The text of an overlay: a string, or undefined.
Text(chars) == [defined |-> TRUE, chars |-> chars]
NoText == [defined |-> FALSE, chars |-> <<>>]

\* An overlay as the editor makes it (VideoList.tsx, lines 44-62), with the
\* given text, its times in seconds.  A font family "" is one that is empty
\* or not there.
overlayOf(text) ==
  [text |-> text, x |-> 15, y |-> 50, fontSize |-> 24, color |-> "#ffffff",
   outlineColor |-> "#000000", outlineWidth |-> 2, startTime |-> 0, endTime |-> 5,
   fontFamily |-> "Inter"]

NoCommand == [pc |-> "none"]


\* A job as it stands when ffprobe has answered: the maxDuration and the
\* overlays it was submitted with, the frame size that ffprobe found.
\* The maxDuration that reaches the handler when the caller asks for the cap
\* asked: a form field of a single submission (videoExportService.ts, line
\* 41: maxDuration.toString()), a number of the JSON of a batch.
fieldOf(kind, asked) ==
  IF asked.t # "number" THEN undefined
  ELSE IF kind = "single" THEN Str(toString(asked.n)) ELSE asked

\* The filter graph given to command.complexFilter, when it is called.
NoFilter == [called |-> FALSE, graph |-> <<>>]

ReceivedJob(kind, asked, overlays) ==
  [pc |-> "received", kind |-> kind, asked |-> asked,
   maxDuration |-> fieldOf(kind, asked),
   overlays |-> overlays, videoWidth |-> 400, videoHeight |-> 300,
   duration |-> undefined, filterComplex |-> NoFilter]

\* durationOf as it would be if the cap were set where the filters are.
durationOfWithOverlays(c) ==
  LET durationLimit == IF c.kind = "single"
                       THEN IF Truthy(c.maxDuration) THEN parseFloat(c.maxDuration.s)
                            ELSE undefined
                       ELSE c.maxDuration
  IN IF Len(c.overlays) > 0 /\ Truthy(durationLimit) /\ Positive(durationLimit)
     THEN durationLimit ELSE undefined

\* The cap given to command.duration, undefined when it is not called:
\* lines 107 and 137-139 of the single handler, lines 244-246 of the batch.
durationOf(c) ==
  LET durationLimit == IF c.kind = "single"
                       THEN IF Truthy(c.maxDuration) THEN parseFloat(c.maxDuration.s)
                            ELSE undefined
                       ELSE c.maxDuration
  IN IF Truthy(durationLimit) /\ Positive(durationLimit) THEN durationLimit ELSE undefined

\* The command is built (lines 125-150, 232-256): the cap, then the filters
\* of the overlays joined by commas.  A createTextFilter that throws ends
\* the job in its catch.
BuildCommand ==
  /\ cmd.pc = "received"
  /\ IF \E k \in 1..Len(cmd.overlays) : Throws(cmd.overlays[k])
     THEN cmd' = [cmd EXCEPT !.pc = "threw", !.duration = durationOf(cmd)]
     ELSE cmd' = [cmd EXCEPT
            !.pc = "built",
            !.duration = durationOf(cmd),
            !.filterComplex =
               IF Len(cmd.overlays) > 0
               THEN [called |-> TRUE,
                     graph |-> join([k \in 1..Len(cmd.overlays) |->
                                       createTextFilter(cmd.overlays[k], cmd.videoWidth,
                                                        cmd.videoHeight)], ",")]
               ELSE NoFilter]
  /\ UNCHANGED <<now, fs, nextUuid, reqs, sweep, dl, dels, faults, ed>>

(***************************************************************************)
(* What the caller gets.                                                   *)
(***************************************************************************)
\* batchResponse as it would be if total counted the metadata entries.
batchResponseOfMetadata(rq) ==
  [success |-> TRUE, processed |-> Len(rq.results), total |-> Len(videosOf(rq)),
   results |-> rq.results, errors |-> rq.errors]

\* res.json of the batch handler (lines 289-295)
batchResponse(rq) ==
  [success |-> TRUE, processed |-> Len(rq.results), total |-> Len(rq.files),
   results |-> rq.results, errors |-> rq.errors]

\* VideoExportService.exportMultipleVideos, from the response on (lines
\* 95-114): the server's aggregate when the response is ok, or else every
\* video of the call as an error under its own name.
exportMultipleVideos(rq) ==
  IF rq.response.status = 200
  THEN batchResponse(rq)
  ELSE [success |-> FALSE, processed |-> 0, total |-> Len(rq.names),
        results |-> <<>>,
        errors |-> [k \in 1..Len(rq.names) |->
                      [idx |-> k, originalName |-> rq.names[k],
                       error |-> rq.response.error]]]

(***************************************************************************)
(* The editor: the state of App (App.tsx) and the handlers that the       *)
(* header, the video list and the timeline call.                           *)
(***************************************************************************)
\* the editor, not opened
NoEditor == [pc |-> "none"]

\* useState of App (lines 12-20) and expandedVideos of VideoList (line 29);
\* exports holds the calls of handleMultiExport, each where it stands.
NewEditor ==
  [pc |-> "open", videos |-> <<>>, currentVideoIndex |-> 0, maxDuration |-> noLimit,
   expandedVideos |-> {}, nextId |-> 1, isExporting |-> FALSE, exports |-> <<>>]

Min(a, b) == IF a < b THEN a ELSE b
Max(a, b) == IF a > b THEN a ELSE b

\* App.getEffectiveDuration (lines 194-196)
getEffectiveDuration(video, maxDuration) ==
  IF maxDuration < noLimit THEN Min(video.duration, maxDuration) ELSE video.duration

\* timelineEffectiveDuration as it would be if the timeline took the limit
\* itself for the duration.
timelineEffectiveDurationOfLimit(duration, maxDuration) ==
  IF maxDuration < noLimit THEN maxDuration ELSE duration

\* Timeline: effectiveDuration (line 27); its duration is what App hands it,
\* getEffectiveDuration(currentVideo) (App.tsx, line 248)
timelineEffectiveDuration(duration, maxDuration) ==
  IF maxDuration < noLimit THEN Min(duration, maxDuration) ELSE duration

\* VideoPreview: effectiveDuration (line 29)
previewEffectiveDuration(video, maxDuration) ==
  IF maxDuration < noLimit THEN Min(video.duration, maxDuration) ELSE video.duration

\* VideoList: effectiveDuration (lines 42, 107)
listEffectiveDuration(video, maxDuration) ==
  IF maxDuration < noLimit THEN Min(video.duration, maxDuration) ELSE video.duration

\* The index in videos of the video with the given id, 0 when there is none.
indexOf(videos, id) ==
  IF \E k \in 1..Len(videos) : videos[k].id = id
  THEN CHOOSE k \in 1..Len(videos) : videos[k].id = id
  ELSE 0

\* clampOverlay as it would be without the half second kept before the end.
clampOverlayNoGap(overlay, duration) ==
  [overlay EXCEPT !.startTime = Min(overlay.startTime, duration),
                  !.endTime = Min(overlay.endTime, duration)]

\* handleMaxDurationChange, what it makes of one overlay (lines 112-116)
clampOverlay(overlay, duration) ==
  [overlay EXCEPT !.startTime = Min(overlay.startTime, duration - epsilon),
                  !.endTime = Min(overlay.endTime, duration)]

\* the editor changes, nothing else does
EditorStep(next) ==
  /\ ed.pc = "open"
  /\ ed' = next
  /\ UNCHANGED <<now, fs, nextUuid, reqs, sweep, dl, dels, faults, cmd>>

\* VideoUpload hands a video of the given duration to handleVideoUpload
\* (App.tsx, lines 24-29), at most so many times: the video goes to the end
\* of the list, and the first video of an empty list is made the current one.
\* length is the videos.length of the render the handler was made in: the
\* drop handler of VideoUpload (lines 67-75) keeps the handler of the render
\* it was mounted in, when the list was empty.
uploadVideo(duration, most, length) ==
  /\ ed.pc = "open"
  /\ ed.nextId <= most
  /\ length \in {0, Len(ed.videos)}
  /\ EditorStep([ed EXCEPT
       !.videos = Append(@, [id |-> ed.nextId, duration |-> duration,
                             textOverlays |-> <<>>]),
       !.currentVideoIndex = IF length = 0 THEN 0 ELSE @,
       !.nextId = @ + 1])

handleVideoUpload(duration) == uploadVideo(duration, MaxVideos, Len(ed.videos))

\* The videos of the list but the one with the given id (App.tsx, line 38)
without(videos, id) ==
  SelectSeq(videos, LAMBDA v : v.id # id)

\* handleRemoveVideo as it would be if it left the index alone when a video
\* before the current one goes.
handleRemoveVideoKeepsIndex(videoId) ==
  LET videoIndex == indexOf(ed.videos, videoId) - 1
      length == Len(ed.videos)
  IN /\ ed.pc = "open"
     /\ videoIndex # -1
     /\ EditorStep([ed EXCEPT
          !.videos = without(@, videoId),
          !.currentVideoIndex =
             IF videoIndex = ed.currentVideoIndex /\ length > 1
             THEN IF videoIndex = length - 1 THEN videoIndex - 1 ELSE @
             ELSE IF length = 1 THEN 0
             ELSE @])

\* App.handleRemoveVideo (lines 31-51), called by the remove button of a
\* video of the list (VideoList.tsx, lines 170-173); the indices count from 0
handleRemoveVideo(videoId) ==
  LET videoIndex == indexOf(ed.videos, videoId) - 1
      length == Len(ed.videos)
  IN /\ ed.pc = "open"
     /\ videoIndex # -1
     /\ EditorStep([ed EXCEPT
          !.videos = without(@, videoId),
          !.currentVideoIndex =
             IF videoIndex = ed.currentVideoIndex /\ length > 1
             THEN IF videoIndex = length - 1 THEN videoIndex - 1 ELSE @
             ELSE IF videoIndex < ed.currentVideoIndex THEN @ - 1
             ELSE IF length = 1 THEN 0
             ELSE @])

\* App.handleSelectVideo (lines 53-60), called by a click on a video of the
\* list (VideoList.tsx, line 121)
handleSelectVideo(videoId) ==
  LET index == indexOf(ed.videos, videoId) - 1
  IN /\ ed.pc = "open"
     /\ index # -1
     /\ EditorStep([ed EXCEPT !.currentVideoIndex = index])

\* VideoList.toggleVideoExpanded (lines 31-66): a video that is expanded and
\* has no overlay gets one, through handleAddOverlay (App.tsx, lines 63-74)
toggleVideoExpanded(id) ==
  LET k == indexOf(ed.videos, id)
      video == ed.videos[k]
      newOverlay == [startTime |-> 0,
                     endTime |-> Min(defaultEnd, listEffectiveDuration(video, ed.maxDuration))]
  IN /\ ed.pc = "open"
     /\ k > 0
     /\ IF id \in ed.expandedVideos
        THEN EditorStep([ed EXCEPT !.expandedVideos = @ \ {id}])
        ELSE EditorStep([ed EXCEPT
               !.expandedVideos = @ \cup {id},
               !.videos[k].textOverlays =
                  IF video.textOverlays = <<>> THEN <<newOverlay>> ELSE @])

\* The fields of the overlay of a video are shown when the video is expanded
\* and has an overlay (VideoList.tsx, lines 211-255).
FieldsShown(id) ==
  /\ ed.pc = "open"
  /\ id \in ed.expandedVideos
  /\ indexOf(ed.videos, id) > 0
  /\ ed.videos[indexOf(ed.videos, id)].textOverlays # <<>>

\* The start time field changes to t (VideoList.tsx, line 235), through
\* handleUpdateOverlay (App.tsx, lines 76-87)
changeStartTime(id, t) ==
  LET k == indexOf(ed.videos, id)
  IN /\ FieldsShown(id)
     /\ EditorStep([ed EXCEPT !.videos[k].textOverlays[1].startTime = t])

\* The end time field changes to t (VideoList.tsx, line 249)
changeEndTime(id, t) ==
  LET k == indexOf(ed.videos, id)
  IN /\ FieldsShown(id)
     /\ EditorStep([ed EXCEPT !.videos[k].textOverlays[1].endTime =
                      Min(t, listEffectiveDuration(ed.videos[k], ed.maxDuration))])

\* App.handleMaxDurationChange (lines 105-119), called by the header's Apply
\* and Remove Limit (Header.tsx, lines 24-27, 122-126)
handleMaxDurationChange(duration) ==
  /\ ed.pc = "open"
  /\ EditorStep([ed EXCEPT
       !.maxDuration = duration,
       !.videos = IF duration < noLimit
                  THEN [k \in 1..Len(ed.videos) |->
                          [ed.videos[k] EXCEPT !.textOverlays =
                             [o \in 1..Len(@) |-> clampOverlay(@[o], duration)]]]
                  ELSE @])

\* Timeline.handleMouseMove (part_002, lines 47-74) while a handle of the
\* overlay of the current video is held (lines 41-45): dragType tells which
\* handle, time is where the pointer is, between 0 and the effective duration
\* (lines 50-53).  A tenth of a second is 1.
handleMouseMove(dragType, time) ==
  LET k == ed.currentVideoIndex + 1
      video == ed.videos[k]
      overlay == video.textOverlays[1]
      effectiveDuration ==
        timelineEffectiveDuration(getEffectiveDuration(video, ed.maxDuration),
                                  ed.maxDuration)
      overlayDuration == overlay.endTime - overlay.startTime
      newStartTime == Max(0, Min(time, effectiveDuration - overlayDuration))
  IN /\ ed.pc = "open"
     /\ k \in 1..Len(ed.videos)
     /\ video.textOverlays # <<>>
     /\ time \in 0..effectiveDuration
     /\ dragType \in {"start", "end", "move"}
     /\ EditorStep(
          CASE dragType = "start" ->
                 [ed EXCEPT !.videos[k].textOverlays[1].startTime =
                    Max(0, Min(time, Min(overlay.endTime - 1, effectiveDuration - 1)))]
            [] dragType = "end" ->
                 [ed EXCEPT !.videos[k].textOverlays[1].endTime =
                    Max(overlay.startTime + 1, Min(time, effectiveDuration))]
            [] dragType = "move" ->
                 [ed EXCEPT !.videos[k].textOverlays[1].startTime = newStartTime,
                            !.videos[k].textOverlays[1].endTime =
                               Min(newStartTime + overlayDuration, effectiveDuration)])

\* The export button is clicked (Header.tsx, lines 160-163: it is disabled
\* while isExporting or when there is no video): handleMultiExport starts
\* with the videos and the maxDuration of the render it was made in (App.tsx,
\* lines 121-122, 187) and awaits checkServerStatus (line 125).
handleMultiExport ==
  /\ ed.pc = "open"
  /\ ~ed.isExporting
  /\ Len(ed.videos) > 0
  /\ Len(ed.exports) < MaxExports
  /\ EditorStep([ed EXCEPT !.exports =
       Append(@, [pc |-> "status", videos |-> ed.videos,
                  maxDuration |-> ed.maxDuration,
                  videosToExport |-> <<>>, durations |-> <<>>])])

\* checkServerStatus has answered (App.tsx, lines 125-142): without a server
\* the call returns; with one it sets isExporting and sends the videos, each
\* with the maxDuration when that is below 300 seconds.
statusChecked(c, serverAvailable) ==
  LET call == ed.exports[c]
      videosToExport ==
        [k \in 1..Len(call.videos) |->
           [maxDuration |-> IF call.maxDuration < noLimit
                            THEN Num(call.maxDuration) ELSE undefined]]
  IN /\ ed.pc = "open"
     /\ c \in 1..Len(ed.exports)
     /\ call.pc = "status"
     /\ IF serverAvailable
        THEN EditorStep([ed EXCEPT
               !.isExporting = TRUE,
               !.exports[c] = [@ EXCEPT !.pc = "export",
                                        !.videosToExport = videosToExport]])
        ELSE EditorStep([ed EXCEPT !.exports[c] = [@ EXCEPT !.pc = "unavailable"]])

\* exportMultipleVideos has returned (App.tsx, lines 152-186): with the
\* server's answer, for which the batch handler has given each video's
\* maxDuration to the encoder (server/index.js, lines 244-246), or with the
\* errors of a request that failed; the finally clears isExporting.
exportReturned(c, ok) ==
  LET call == ed.exports[c]
  IN /\ ed.pc = "open"
     /\ c \in 1..Len(ed.exports)
     /\ call.pc = "export"
     /\ EditorStep([ed EXCEPT
          !.isExporting = FALSE,
          !.exports[c] =
             IF ok
             THEN [@ EXCEPT !.pc = "exported",
                     !.durations =
                        [k \in 1..Len(call.videosToExport) |->
                           durationOf(ReceivedJob("batch",
                                                  call.videosToExport[k].maxDuration,
                                                  <<>>))]]
             ELSE [@ EXCEPT !.pc = "failed"]])

(***************************************************************************)
(* GET /api/download/:filename                                             *)
(***************************************************************************)
NoDownload == [ref |-> <<>>, status |-> 0, data |-> "", path |-> <<>>, found |-> FALSE]

\* The file names a caller may ask for: the names the server has given to
\* outputs, a name that was never given, and names that lead out of the
\* output directory through "..", to the stored uploads and to the server's
\* own source file.
DownloadRefs ==
  LET jobs == UNION {SeqRange(reqs[r].jobs) : r \in 1..Len(reqs)}
      ups == UNION {SeqRange(reqs[r].files) : r \in 1..Len(reqs)}
  IN {j.outputFilename : j \in {k \in jobs : k.outputFilename # <<>>}}
       \cup {<<"..", "uploads", Last(p)>> : p \in ups}
       \cup {<<"..", "index.js">>, <<"none.mp4">>}

\* The handler (lines 315-334): 404 when nothing exists at
\* path.join(outputDir, filename), the bytes of the file there otherwise.
\* path and found record where the name led and whether a file was there.
Download(ref) ==
  LET filePath == pathJoin(outputDir, ref)
  IN /\ dl' = IF ~exists(filePath)
              THEN [ref |-> ref, status |-> 404, data |-> "", path |-> filePath,
                    found |-> FALSE]
              ELSE [ref |-> ref, status |-> 200, data |-> fs[filePath].data,
                    path |-> filePath, found |-> TRUE]
     /\ UNCHANGED <<now, fs, nextUuid, reqs, sweep, dels, faults>>
     /\ UNCHANGED <<cmd, ed>>

(***************************************************************************)
(* cleanupOldFiles, run by setInterval every hour.                        *)
(***************************************************************************)
\* No pass is running; completed tells whether a pass has run to its end
\* since the server started.
SweepOver(completed) ==
  [pc |-> "idle", at |-> 0, listing |-> {}, completed |-> completed]

SweepIdle == SweepOver(FALSE)

\* const now = Date.now(); readdir(outputDir)   (lines 339-343)
SweepStart ==
  /\ sweep.pc = "idle"
  /\ sweep' = [pc |-> "output", at |-> now,
               listing |-> readdir(fs, outputDir),
               completed |-> sweep.completed]
  /\ UNCHANGED <<now, fs, nextUuid, reqs, dl, dels, faults>>
  /\ UNCHANGED <<cmd, ed>>

\* SweepFile as it would be if it removed every file it lists, whatever its
\* age.
SweepFileEvery(p, ok) ==
  /\ sweep.pc \in {"output", "uploads"}
  /\ p \in sweep.listing
  /\ Rejects(ok)
  /\ IF ~exists(p)
     THEN /\ ok
          /\ sweep' = SweepOver(sweep.completed)
          /\ UNCHANGED <<fs, dels>>
     ELSE IF ok
     THEN /\ fs' = unlink(fs, {p})
          /\ dels' = countDels(dels, fs, {p}, "sweep")
          /\ sweep' = [sweep EXCEPT !.listing = @ \ {p}]
     ELSE /\ sweep' = SweepOver(sweep.completed)
          /\ UNCHANGED <<fs, dels>>
  /\ UNCHANGED <<now, nextUuid, reqs, dl>>
  /\ UNCHANGED <<cmd, ed>>

\* SweepFile as it would be if each turn of the loop caught its own failed
\* removal and went on to the next file.
SweepFileCatches(p, ok) ==
  /\ sweep.pc \in {"output", "uploads"}
  /\ p \in sweep.listing
  /\ Rejects(ok)
  /\ IF ~exists(p)
     THEN /\ ok
          /\ sweep' = SweepOver(sweep.completed)
          /\ UNCHANGED <<fs, dels>>
     ELSE IF sweep.at - fs[p].mtime > maxAge /\ ok
     THEN /\ fs' = unlink(fs, {p})
          /\ dels' = countDels(dels, fs, {p}, "sweep")
          /\ sweep' = [sweep EXCEPT !.listing = @ \ {p}]
     ELSE /\ sweep.at - fs[p].mtime > maxAge \/ ok
          /\ sweep' = [sweep EXCEPT !.listing = @ \ {p}]
          /\ UNCHANGED <<fs, dels>>
  /\ UNCHANGED <<now, nextUuid, reqs, dl>>
  /\ UNCHANGED <<cmd, ed>>

\* One turn of a for loop (lines 344-351, 355-362): stat the file, remove
\* it when it is older than maxAge.  A stat of a file that is gone and a
\* remove that fails both throw into the catch of line 363, which ends the
\* pass.
SweepFile(p, ok) ==
  /\ sweep.pc \in {"output", "uploads"}
  /\ p \in sweep.listing
  /\ Rejects(ok)
  /\ IF ~exists(p)
     THEN /\ ok
          /\ sweep' = SweepOver(sweep.completed)
          /\ UNCHANGED <<fs, dels>>
     ELSE IF sweep.at - fs[p].mtime > maxAge
     THEN IF ok
          THEN /\ fs' = unlink(fs, {p})
               /\ dels' = countDels(dels, fs, {p}, "sweep")
               /\ sweep' = [sweep EXCEPT !.listing = @ \ {p}]
          ELSE /\ sweep' = SweepOver(sweep.completed)
               /\ UNCHANGED <<fs, dels>>
     ELSE /\ ok
          /\ sweep' = [sweep EXCEPT !.listing = @ \ {p}]
          /\ UNCHANGED <<fs, dels>>
  /\ UNCHANGED <<now, nextUuid, reqs, dl>>
  /\ UNCHANGED <<cmd, ed>>

\* readdir(uploadsDir) after the loop over the output directory (line 354)
SweepUploads ==
  /\ sweep.pc = "output"
  /\ sweep.listing = {}
  /\ sweep' = [sweep EXCEPT !.pc = "uploads", !.listing = readdir(fs, uploadsDir)]
  /\ UNCHANGED <<now, fs, nextUuid, reqs, dl, dels, faults>>
  /\ UNCHANGED <<cmd, ed>>

\* the pass is over
SweepEnd ==
  /\ sweep.pc = "uploads"
  /\ sweep.listing = {}
  /\ sweep' = SweepOver(TRUE)
  /\ UNCHANGED <<now, fs, nextUuid, reqs, dl, dels, faults>>
  /\ UNCHANGED <<cmd, ed>>

\* Time passes, TickStep hours at a time; a pass of the sweep takes no time.
Tick ==
  /\ sweep.pc = "idle"
  /\ now + TickStep <= MaxNow
  /\ now' = now + TickStep
  /\ UNCHANGED <<fs, nextUuid, reqs, sweep, dl, dels, faults>>
  /\ UNCHANGED <<cmd, ed>>

(***************************************************************************)
(* The specification.                                                      *)
(***************************************************************************)
\* The server when it has started.
ServerInit ==
  /\ now = 0
  /\ fs = writeFile(<<>>, serverFile, "source", 0)
  /\ nextUuid = 1
  /\ reqs = <<>>
  /\ sweep = SweepIdle
  /\ dl = NoDownload
  /\ dels = <<>>
  /\ faults = 0

Init ==
  /\ ServerInit
  /\ cmd = NoCommand
  /\ ed = NoEditor

\* What the server does with the submissions it has, where every fs.remove
\* of a handler settles with one of oks and the metadata of a submission
\* arrives in one of the forms wires.
Server(oks, wires) ==
  \/ \E r \in 1..Len(reqs) : UploadAbort(r)
  \/ \E r \in 1..Len(reqs) : \E wire \in wires : HandlerStart(r, wire)
  \/ \E r \in 1..Len(reqs) : \E probe \in ProbeOutcomes, compile \in CompileOutcomes :
       ProbeDone(r, probe, compile)
  \/ \E r \in 1..Len(reqs) : EncodeWrite(r)
  \/ \E r \in 1..Len(reqs) : EncodeEnd(r)
  \/ \E r \in 1..Len(reqs) : EncodeError(r)
  \/ \E r \in 1..Len(reqs) : \E ok \in oks : RemoveDone(r, ok)
  \/ \E r \in 1..Len(reqs) : \E ok \in oks : CleanupDone(r, ok)
  \/ \E r \in 1..Len(reqs) : \E ok \in oks : OuterCatch(r, ok)

\* The names a caller may give the next asset of submission r.
NamesFor(r) == IF reqs[r].kind = "single" THEN Names \cup {<<"">>} ELSE Names

\* The k-th asset of a batch named after its position.
NameAt(r) == {<<"n" \o ToString(Len(reqs[r].names) + 1)>>}

\* The sweep and the clock.
Lifecycle ==
  \/ SweepStart
  \/ \E p \in sweep.listing, ok \in BOOLEAN : SweepFile(p, ok)
  \/ SweepUploads
  \/ SweepEnd
  \/ Tick

\* One submission of up to MaxUploads assets on a server where the sweep
\* runs and time passes.
Next ==
  \/ \E kind \in {"single", "batch"} : Submit(kind, 1)
  \/ \E r \in 1..Len(reqs) : \E mimetype \in Mimetypes, name \in NamesFor(r) :
       UploadFile(r, mimetype, name, MaxUploads)
  \/ Server(BOOLEAN, Wires)
  \/ Lifecycle

Spec == Init /\ [][Next]_vars

\* The sweep alone: the files an earlier run of the server left in the two
\* directories, no job at work, and a clock that stands still while passes
\* follow one another.
LeftFiles == {outputDir \o <<"o1">>, outputDir \o <<"o2">>,
              uploadsDir \o <<"i1">>, uploadsDir \o <<"i2">>}

LeftTimes == {0, MaxNow - maxAge, MaxNow - TickStep}

InitSweep ==
  /\ now = MaxNow
  /\ \E left \in SUBSET LeftFiles : \E mtime \in [left -> LeftTimes] :
       fs = [p \in left \cup {serverFile} |->
               IF p = serverFile THEN [mtime |-> 0, data |-> "source"]
               ELSE [mtime |-> mtime[p], data |-> "complete"]]
  /\ nextUuid = 1
  /\ reqs = <<>>
  /\ sweep = SweepIdle
  /\ dl = NoDownload
  /\ dels = <<>>
  /\ faults = 0
  /\ cmd = NoCommand
  /\ ed = NoEditor

NextSweep ==
  \/ SweepStart
  \/ \E p \in sweep.listing, ok \in BOOLEAN : SweepFile(p, ok)
  \/ SweepUploads
  \/ SweepEnd

SweepSpec == InitSweep /\ [][NextSweep]_vars

\* One submission of up to MaxFetch assets, its metadata as the client builds
\* it or unparseable, on a server where callers download, the sweep runs and
\* time passes, on a file system that rejects no removal of a handler.
NextFetch ==
  \/ \E kind \in {"single", "batch"} : Submit(kind, 1)
  \/ \E r \in 1..Len(reqs) : \E mimetype \in Mimetypes, name \in NameAt(r) :
       UploadFile(r, mimetype, name, MaxFetch)
  \/ Server({TRUE}, {"built", "malformed"})
  \/ Lifecycle
  \/ \E ref \in DownloadRefs : Download(ref)

FetchSpec == Init /\ [][NextFetch]_vars

\* One submission of up to MaxBatch assets, each named after its position,
\* on a server that does nothing else.
NextBatch ==
  \/ \E kind \in {"single", "batch"} : Submit(kind, 1)
  \/ \E r \in 1..Len(reqs) : \E mimetype \in Mimetypes, name \in NameAt(r) :
       UploadFile(r, mimetype, name, MaxBatch)
  \/ Server(BOOLEAN, Wires)

BatchSpec == Init /\ [][NextBatch]_vars

\* The steps that the server takes by itself once it can: the handler runs
\* when the upload is complete, and every fs.remove settles.  The callbacks
\* of ffprobe and of the encoder come when those processes signal, and no
\* timer of the server stands in for them.
Handlers ==
  \/ \E r \in 1..Len(reqs) : UploadAbort(r)
  \/ \E r \in 1..Len(reqs) : \E wire \in Wires : HandlerStart(r, wire)
  \/ \E r \in 1..Len(reqs) : \E ok \in BOOLEAN : RemoveDone(r, ok)
  \/ \E r \in 1..Len(reqs) : \E ok \in BOOLEAN : CleanupDone(r, ok)
  \/ \E r \in 1..Len(reqs) : \E ok \in BOOLEAN : OuterCatch(r, ok)

\* The submission of BatchSpec on a server that takes every step it can.
FairBatchSpec == Init /\ [][NextBatch]_vars /\ WF_vars(Handlers)

\* Two submissions of up to MaxAssets assets in all, their metadata as the
\* client builds it or unparseable, handled concurrently, on a file system
\* that rejects no removal.
NextConc ==
  \/ \E kind \in {"single", "batch"} : Submit(kind, 2)
  \/ \E r \in 1..Len(reqs) : \E mimetype \in Mimetypes, name \in Names :
       UploadFile(r, mimetype, name, MaxAssets)
  \/ Server({TRUE}, {"built", "malformed"})

ConcSpec == Init /\ [][NextConc]_vars

\* The overlays a job of CommandSpec may carry.
CommandOverlays == {overlayOf(Text(<<"a">>)), overlayOf(Text(<<"b", ":">>)), overlayOf(NoText)}

RECURSIVE SeqsUpTo(_, _)
\* The sequences of at most n elements of S.
SeqsUpTo(S, n) ==
  IF n = 0 THEN {<<>>}
  ELSE LET shorter == SeqsUpTo(S, n - 1)
       IN shorter \cup {Append(q, e) : q \in shorter, e \in S}

\* One job, of a single or of a batch submission, with any cap asked for
\* and up to MaxOverlays overlays, whose command is built.
InitCommand ==
  /\ ServerInit
  /\ ed = NoEditor
  /\ \E kind \in {"single", "batch"},
        asked \in {undefined} \cup {Num(n) : n \in -1..MaxCap},
        overlays \in SeqsUpTo(CommandOverlays, MaxOverlays) :
       cmd = ReceivedJob(kind, asked, overlays)

NextCommand == BuildCommand

CommandSpec == InitCommand /\ [][NextCommand]_vars

\* The characters of an overlay text.
Alphabet == {"a", "'", ":", ",", "\\"}

\* One job with one overlay, of any text of up to MaxText characters, whose
\* command is built.
InitFilter ==
  /\ ServerInit
  /\ ed = NoEditor
  /\ \E kind \in {"single", "batch"}, text \in SeqsUpTo(Alphabet, MaxText) :
       cmd = ReceivedJob(kind, undefined, <<overlayOf(Text(text))>>)

FilterSpec == InitFilter /\ [][NextCommand]_vars

\* The fields of the overlays of OverlaySpec: the position in percent, the
\* font size, the width of the outline, the window <<startTime, endTime>> in
\* seconds and the font family ("Papyrus" is none of the editor's font
\* options), and the frame sizes <<width, height>> that ffprobe may find.
Xs == {0, 15, 33, 100, 150}
Ys == {50, 100, -10}
FontSizes == {24, 13}
OutlineWidths == {2, 0, -1}
Windows == {<<0, 5>>, <<3, 8>>, <<5, 5>>, <<-1, 5>>}
FontFamilies == {"Inter", "", "Arial", "Papyrus"}
Frames == {<<400, 300>>, <<1920, 1080>>, <<50, 50>>}

\* One job with one overlay of any of these fields, on a video of any of
\* these frame sizes, whose command is built.
InitOverlay ==
  /\ ServerInit
  /\ ed = NoEditor
  /\ \E kind \in {"single", "batch"}, x \in Xs, y \in Ys, fontSize \in FontSizes,
        outlineWidth \in OutlineWidths, window \in Windows,
        fontFamily \in FontFamilies, frame \in Frames :
       cmd = [ReceivedJob(kind, undefined,
                          <<[overlayOf(Text(<<"a">>)) EXCEPT
                               !.x = x, !.y = y, !.fontSize = fontSize,
                               !.outlineWidth = outlineWidth,
                               !.startTime = window[1], !.endTime = window[2],
                               !.fontFamily = fontFamily]>>)
                EXCEPT !.videoWidth = frame[1], !.videoHeight = frame[2]]

OverlaySpec == InitOverlay /\ [][NextCommand]_vars

\* The durations of the videos, the limits set in the header and the times
\* typed into the fields, in tenths of a second.
NaturalDurations == {100, 600}
Limits == {100, 200, noLimit}
Times == {0, 98, 180, 250}

\* The editor, opened on a server that is not called.
InitEditor ==
  /\ ServerInit
  /\ cmd = NoCommand
  /\ ed = NewEditor

NextEditor ==
  \/ \E duration \in NaturalDurations : handleVideoUpload(duration)
  \/ \E id \in 1..MaxVideos : toggleVideoExpanded(id)
  \/ \E id \in 1..MaxVideos, t \in Times : changeStartTime(id, t)
  \/ \E id \in 1..MaxVideos, t \in Times : changeEndTime(id, t)
  \/ \E duration \in Limits : handleMaxDurationChange(duration)

EditorSpec == InitEditor /\ [][NextEditor]_vars

\* What is typed into a time field and where the pointer is dragged to, in
\* tenths of a second.
TypedTimes == {98}
PointerTimes == {250}

\* The editor with one video uploaded, and everything that sets the times of
\* its overlay: the overlay made when the video is expanded, the two fields,
\* the handles of the timeline and the limit of the header.
InitTimeline ==
  /\ ServerInit
  /\ cmd = NoCommand
  /\ \E duration \in NaturalDurations :
       ed = [NewEditor EXCEPT
               !.videos = <<[id |-> 1, duration |-> duration, textOverlays |-> <<>>]>>,
               !.nextId = 2]

NextTimeline ==
  \/ toggleVideoExpanded(1)
  \/ \E t \in TypedTimes : changeStartTime(1, t)
  \/ \E t \in TypedTimes : changeEndTime(1, t)
  \/ \E dragType \in {"start", "end", "move"}, time \in PointerTimes :
       handleMouseMove(dragType, time)
  \/ \E duration \in Limits : handleMaxDurationChange(duration)

TimelineSpec == InitTimeline /\ [][NextTimeline]_vars

\* What the header's duration field can hand to handleMaxDurationChange
\* (Header.tsx, lines 24-27, 84-90, 122-126), in tenths of a second: a whole
\* number of seconds, typed or preset, 300 for Remove Limit.
Settings == {-50, 100, noLimit, 4000}

\* The editor with one video uploaded, the limit of the header and the
\* export button.
NextExport ==
  \/ \E duration \in Settings : handleMaxDurationChange(duration)
  \/ handleMultiExport
  \/ \E c \in 1..MaxExports, serverAvailable \in BOOLEAN :
       statusChecked(c, serverAvailable)
  \/ \E c \in 1..MaxExports, ok \in BOOLEAN : exportReturned(c, ok)

ExportSpec == InitTimeline /\ [][NextExport]_vars

\* The list of videos: uploads, removals and selections.
NextList ==
  \/ \E duration \in NaturalDurations, length \in 0..MaxList :
       uploadVideo(duration, MaxList, length)
  \/ \E id \in 1..MaxList : handleRemoveVideo(id)
  \/ \E id \in 1..MaxList : handleSelectVideo(id)

ListSpec == InitEditor /\ [][NextList]_vars

(***************************************************************************)
(* The claims.                                                             *)
(***************************************************************************)
\* The jobs, each as <<submission, item>>.
Jobs == UNION {{<<r, i>> : i \in 1..Len(reqs[r].jobs)} : r \in 1..Len(reqs)}
JobOf(j) == reqs[j[1]].jobs[j[2]]
Terminal(job) == job.state \in {"Completed", "Failed"}
Batches == {r \in 1..Len(reqs) : reqs[r].kind = "batch"}

\* C1: once a job is terminal, Completed or Failed at whatever step, its
\* input artifact is absent from the input area and the handler has deleted
\* it exactly once, unless the file system rejected a removal of it.
InputDeletedOnce ==
  \A j \in Jobs :
    Terminal(JobOf(j)) /\ ~JobOf(j).rmFault
      => /\ ~exists(JobOf(j).inputPath)
         /\ delsOf(dels, JobOf(j).inputPath).handler = 1

\* C1 witness: a batch with a Completed job and with jobs Failed by the
\* probe and by the encoder, no removal rejected.
InputDeletedOnceWitness ==
  \E r \in Batches :
    /\ \E i \in 1..Len(reqs[r].jobs) : reqs[r].jobs[i].state = "Completed"
    /\ \E i \in 1..Len(reqs[r].jobs) :
         reqs[r].jobs[i].state = "Failed" /\ reqs[r].jobs[i].failedAt = "probe"
    /\ \E i \in 1..Len(reqs[r].jobs) :
         reqs[r].jobs[i].state = "Failed" /\ reqs[r].jobs[i].failedAt = "encode"
    /\ faults = 0

\* C2: once a job is terminal, a file exists at its output path if and only
\* if the job is Completed (so nothing is left there by a failed encode).
OutputIffCompleted ==
  \A j \in Jobs :
    Terminal(JobOf(j)) => (exists(JobOf(j).outputPath) <=> JobOf(j).state = "Completed")

\* Every asset of the submission has its metadata entry.
MetadataComplete(rq) == Len(videosOf(rq)) >= Len(rq.files)

\* C3: in a batch that has answered and in which every asset has its
\* metadata entry, when the job of an item has failed every later item has
\* been run to a terminal state and the call has returned the aggregate.
FailureIsolated ==
  \A r \in Batches :
    LET rq == reqs[r]
    IN rq.pc = "done" /\ MetadataComplete(rq)
         => \A i \in 1..Len(rq.jobs) :
              rq.jobs[i].state = "Failed"
                => /\ rq.response.status = 200
                   /\ \A k \in (i + 1)..Len(rq.jobs) : Terminal(rq.jobs[k])

\* C3 witness: a batch has answered, its first job failed in the probe and a
\* later job is Completed.
FailureIsolatedWitness ==
  \E r \in Batches :
    /\ reqs[r].pc = "done"
    /\ Len(reqs[r].jobs) >= 2
    /\ reqs[r].jobs[1].state = "Failed" /\ reqs[r].jobs[1].failedAt = "probe"
    /\ reqs[r].jobs[Len(reqs[r].jobs)].state = "Completed"

\* The items of a submission whose job is Failed.
FailedItems(rq) == {i \in 1..Len(rq.jobs) : rq.jobs[i].state = "Failed"}

\* C4: the aggregate of a batch of M items of which exactly one has failed
\* and the others are Completed has processed = M - 1 and one error, under
\* the name of the failing item's metadata, wherever the item stands.
OneFailureTagged ==
  \A r \in Batches :
    LET rq == reqs[r]
        M == Len(rq.files)
        agg == exportMultipleVideos(rq)
    IN /\ rq.pc = "done"
       /\ Cardinality(FailedItems(rq)) = 1
       /\ \A i \in 1..M : Terminal(rq.jobs[i])
       => /\ agg.processed = M - 1
          /\ agg.total = M
          /\ Len(agg.errors) = 1
          /\ \A i \in FailedItems(rq) : agg.errors[1].originalName = rq.names[i]

\* C4 witness: a batch of three has answered, its middle item failed and the
\* other two are Completed.
OneFailureTaggedWitness ==
  \E r \in Batches :
    /\ reqs[r].pc = "done"
    /\ Len(reqs[r].jobs) = 3
    /\ reqs[r].jobs[1].state = "Completed"
    /\ reqs[r].jobs[2].state = "Failed"
    /\ reqs[r].jobs[3].state = "Completed"

\* The items that the entries of a list of results or of errors stand for.
ItemsOf(entries) == {entries[k].idx : k \in 1..Len(entries)}

\* C5: every aggregate of a batch has processed = length of results, total =
\* number of submitted assets, and every submitted item in exactly one of
\* results and errors.
AggregateCounts ==
  \A r \in Batches :
    LET rq == reqs[r]
        agg == exportMultipleVideos(rq)
    IN rq.pc = "done"
         => /\ agg.processed = Len(agg.results)
            /\ agg.total = Len(rq.names)
            /\ Len(agg.results) + Len(agg.errors) = agg.total
            /\ ItemsOf(agg.results) \cup ItemsOf(agg.errors) = 1..agg.total
            /\ ItemsOf(agg.results) \cap ItemsOf(agg.errors) = {}

\* C5 witness: a batch has answered with its aggregate, which has a result
\* and an error, and more metadata entries than assets had been sent.
AggregateCountsWitness ==
  \E r \in Batches :
    /\ reqs[r].pc = "done"
    /\ reqs[r].response.status = 200
    /\ reqs[r].wire = "long"
    /\ reqs[r].results # <<>>
    /\ reqs[r].errors # <<>>

\* The files that are not stored uploads of a submission.
Outputs(rq) == DOMAIN fs \ (SeqRange(rq.files) \cup {serverFile})

\* C6: a batch whose asset list and metadata list differ in length is
\* rejected as a whole: no item is probed or encoded, no output is created,
\* and the call does not answer with an aggregate.
MismatchFailsClosed ==
  \A r \in Batches :
    LET rq == reqs[r]
    IN rq.wire \in {"short", "long"}
         => /\ \A i \in 1..Len(rq.jobs) : rq.jobs[i].probes = 0 /\ rq.jobs[i].encodes = 0
            /\ Outputs(rq) = {}
            /\ rq.pc = "done" => rq.response.status # 200

\* A submission that validation rejects: it holds an asset that is not a
\* video, or its upload is over and held no asset.
Invalid(rq) ==
  \/ \E k \in 1..Len(rq.mimes) : rq.mimes[k] # "video/mp4"
  \/ rq.pc # "upload" /\ rq.mimes = <<>>

\* C7: a submission that validation rejects never enters the job runner: it
\* has no job, the probe and the encoder are not invoked, no output is
\* created, and it is answered with an error.
RejectedNeverRuns ==
  \A r \in 1..Len(reqs) :
    LET rq == reqs[r]
    IN Invalid(rq)
         => /\ rq.jobs = <<>>
            /\ rq.pc \in {"uploadAbort", "done"}
            /\ Outputs(rq) = {}
            /\ rq.pc = "done" => rq.response.status \in {400, 500}

\* C7 witness: a batch whose second asset is not a video has been answered,
\* after its first asset had been stored.
RejectedNeverRunsWitness ==
  \E r \in Batches :
    /\ reqs[r].pc = "done"
    /\ Len(reqs[r].mimes) = 2
    /\ reqs[r].mimes[2] = "text/plain"
    /\ Len(reqs[r].files) = 1

\* A batch that has failed as a whole before any of its items started.
FailedAsAWhole(rq) ==
  /\ rq.pc = "done"
  /\ rq.response.status # 200
  /\ \A i \in 1..Len(rq.jobs) : rq.jobs[i].probes = 0

\* C8: when a batch fails as a whole before any item starts, the caller gets
\* every submitted item as an error, under its own name and with the same
\* error, processed is 0, and every input stored for the submission is gone
\* (unless the file system rejected its removal).
WholeFailureReported ==
  \A r \in Batches :
    LET rq == reqs[r]
        agg == exportMultipleVideos(rq)
    IN FailedAsAWhole(rq)
         => /\ agg.processed = 0
            /\ agg.results = <<>>
            /\ Len(agg.errors) = Len(rq.names)
            /\ \A k \in 1..Len(rq.names) :
                 /\ agg.errors[k].originalName = rq.names[k]
                 /\ agg.errors[k].error = agg.errors[1].error
            /\ ~rq.outerFault => \A k \in 1..Len(rq.files) : ~exists(rq.files[k])

\* C8 witness: a batch of two stored assets whose metadata cannot be parsed
\* has been answered.
WholeFailureReportedWitness ==
  \E r \in Batches :
    /\ reqs[r].pc = "done"
    /\ reqs[r].wire = "malformed"
    /\ Len(reqs[r].files) = 2
    /\ ~reqs[r].outerFault

\* A path inside the output area.
InOutputArea(p) == Len(p) > Len(outputDir) /\ SubSeq(p, 1, Len(outputDir)) = outputDir

\* C9: a download answers with the bytes exactly when the name resolves to
\* a file that exists in the output area, and with NotFound otherwise.
FetchExactlyOutputs ==
  dl.status # 0
    => /\ dl.status = 200 <=> dl.found /\ InOutputArea(dl.path)
       /\ dl.status # 200 => dl.status = 404

\* The paths of the stored uploads and of the outputs, each with the job
\* (or upload) it belongs to.
Owned ==
  UNION {{<<reqs[r].files[k], r, k, "input">> : k \in 1..Len(reqs[r].files)}
           : r \in 1..Len(reqs)}
    \cup {<<JobOf(j).outputPath, j[1], j[2], "output">> :
            j \in {k \in Jobs : JobOf(k).outputPath # <<>>}}

\* C10: the input paths and the output paths of any two jobs differ: no path
\* belongs to two jobs, nor is it the input of one and the output of
\* another, and every file written belongs to one job.
PathsDisjoint ==
  /\ \A a, b \in Owned : a[1] = b[1] => a = b
  /\ \A p \in DOMAIN fs \ {serverFile} : \E a \in Owned : a[1] = p

\* C10 witness: two submissions with the same requested name and the same
\* original file name are both in their encoding step.
PathsDisjointWitness ==
  /\ Len(reqs) = 2
  /\ reqs[1].pc = "encoding" /\ reqs[2].pc = "encoding"
  /\ reqs[1].names = reqs[2].names

\* C11: the output file of every job is named by a single segment (its name
\* holds no path separator) and is a direct child of the output area.
OutputDirectChild ==
  \A j \in Jobs :
    JobOf(j).outputPath # <<>>
      => /\ Len(JobOf(j).outputFilename) = 1
         /\ Front(JobOf(j).outputPath) = outputDir

\* C12: the sweep never deletes the input of a job that is not yet terminal,
\* nor the output file that a job in its encoding step has started to write.
SweepSparesActive ==
  \A j \in Jobs :
    ~Terminal(JobOf(j))
      => /\ delsOf(dels, JobOf(j).inputPath).sweep = 0
         /\ JobOf(j).wrote => exists(JobOf(j).outputPath)

\* C13: while a job is in its encoding step no file exists at its final
\* output path, and no download answers with a partially written file.
NoPartialOutput ==
  /\ \A r \in 1..Len(reqs) :
       reqs[r].pc = "encoding" => ~exists(reqs[r].jobs[reqs[r].i].outputPath)
  /\ dl.status = 200 => dl.data # "partial"

\* The files of the input area and of the output area.
Areas(f) == readdir(f, uploadsDir) \cup readdir(f, outputDir)

\* The age of file p of f, at the time the running pass of the sweep took.
AgeAtPass(f, p) == sweep.at - f[p].mtime

\* C14: a step of the sweep removes only files older than the retention
\* window and changes no file that stays; and when a pass completes, no file
\* of the input area or of the output area is older than the window.
SweepRetention ==
  [][/\ sweep' # sweep
        => /\ DOMAIN fs' \subseteq DOMAIN fs
           /\ \A p \in DOMAIN fs :
                IF p \in DOMAIN fs' THEN fs'[p] = fs[p] ELSE AgeAtPass(fs, p) > maxAge
     /\ sweep.pc = "uploads" /\ sweep.listing = {} /\ sweep'.pc = "idle"
        => \A p \in Areas(fs') : AgeAtPass(fs', p) <= maxAge]_vars

\* C14 witness: a pass has gone through both directories; it has removed a
\* file and has left a file younger than the window.
SweepRetentionWitness ==
  /\ sweep.pc = "uploads" /\ sweep.listing = {}
  /\ \E p \in DOMAIN dels : dels[p].sweep > 0
  /\ \E p \in Areas(fs) : AgeAtPass(fs, p) < maxAge

\* C15: when the command of a job whose maxDuration is set and positive has
\* been built, the encoder has been given that duration as its cap, with
\* overlays and without.
DurationCapApplied ==
  cmd.pc = "built" /\ Positive(cmd.asked) => cmd.duration = cmd.asked

\* C15 witness: the command of a single submission with a positive cap and
\* no overlays has been built.
DurationCapAppliedWitness ==
  /\ cmd.pc = "built"
  /\ cmd.kind = "single"
  /\ Positive(cmd.asked)
  /\ cmd.overlays = <<>>
  /\ cmd.duration = cmd.asked

\* The effective duration of a video of the given natural duration: the
\* limit when one is set (the setting is below 300 seconds) and is below the
\* natural duration, the natural duration otherwise.
EffectiveOf(duration, maxDuration) ==
  IF maxDuration < noLimit /\ maxDuration < duration THEN maxDuration ELSE duration

\* C16: for every video and every setting of the limit, the effective duration
\* is the limit when it is set and below the natural duration and the natural
\* duration otherwise, and App, the timeline, the preview and the video list
\* all compute that value.
EffectiveDurationAgrees ==
  ed.pc = "open"
    => \A k \in 1..Len(ed.videos) :
         LET video == ed.videos[k]
             expected == EffectiveOf(video.duration, ed.maxDuration)
         IN /\ getEffectiveDuration(video, ed.maxDuration) = expected
            /\ timelineEffectiveDuration(getEffectiveDuration(video, ed.maxDuration),
                                         ed.maxDuration) = expected
            /\ previewEffectiveDuration(video, ed.maxDuration) = expected
            /\ listEffectiveDuration(video, ed.maxDuration) = expected

\* C16 witness: a limit is set below the natural duration of a video.
EffectiveDurationAgreesWitness ==
  /\ ed.pc = "open"
  /\ ed.maxDuration < noLimit
  /\ \E k \in 1..Len(ed.videos) : ed.maxDuration < ed.videos[k].duration

\* A step that sets the limit to another value below 300 seconds.
LimitApplied == ed.pc = "open" /\ ed'.maxDuration # ed.maxDuration /\ ed'.maxDuration < noLimit

\* C17: when a limit is applied, every overlay of every video gets startTime
\* min(startTime, effectiveDuration - epsilon) and endTime min(endTime,
\* effectiveDuration), for the effective duration of its video.
ClampedToEffective ==
  [][LimitApplied
       => \A k \in 1..Len(ed.videos) : \A o \in 1..Len(ed.videos[k].textOverlays) :
            LET old == ed.videos[k].textOverlays[o]
                new == ed'.videos[k].textOverlays[o]
                effectiveDuration == EffectiveOf(ed.videos[k].duration, ed'.maxDuration)
            IN /\ new.startTime = Min(old.startTime, effectiveDuration - epsilon)
               /\ new.endTime = Min(old.endTime, effectiveDuration)]_vars

\* C18: when a limit is applied, an overlay with 0 <= startTime < endTime of a
\* video of positive effective duration keeps startTime < endTime.
ClampKeepsOrder ==
  [][LimitApplied
       => \A k \in 1..Len(ed.videos) : \A o \in 1..Len(ed.videos[k].textOverlays) :
            LET old == ed.videos[k].textOverlays[o]
                new == ed'.videos[k].textOverlays[o]
            IN /\ 0 <= old.startTime
               /\ old.startTime < old.endTime
               /\ EffectiveOf(ed.videos[k].duration, ed'.maxDuration) > 0
               => new.startTime < new.endTime]_vars

\* C18 witness: a limit is set and an overlay starts half a second before it
\* and ends at it: the limit cut both its ends.
ClampKeepsOrderWitness ==
  /\ ed.pc = "open"
  /\ ed.maxDuration < noLimit
  /\ \E k \in 1..Len(ed.videos) : \E o \in 1..Len(ed.videos[k].textOverlays) :
       /\ ed.videos[k].textOverlays[o].startTime = ed.maxDuration - epsilon
       /\ ed.videos[k].textOverlays[o].endTime = ed.maxDuration

\* C19: a change of the limit leaves the overlays that the editor holds as
\* they are.
ClampKeepsSource ==
  [][ed.pc = "open" /\ ed'.maxDuration # ed.maxDuration => ed'.videos = ed.videos]_vars

RECURSIVE QuoteEnd(_, _)
\* Where the quoted value that holds piece i of a filter graph ends: the
\* first quote from i on that no backslash escapes (a backslash escapes the
\* piece after it), 0 when there is none.
QuoteEnd(graph, i) ==
  IF i > Len(graph) THEN 0
  ELSE IF graph[i] = "\\" THEN QuoteEnd(graph, i + 2)
  ELSE IF graph[i] = "'" THEN i
  ELSE QuoteEnd(graph, i + 1)

\* The piece at which the text of the first overlay begins: after
\* drawtext=text='
TextBegin == Len(<<"drawtext", "=", "text", "=", "'">>) + 1

\* C20: in the compiled filter of an overlay the quoted value of text= ends
\* at the quote that createTextFilter puts after the text, whatever the text:
\* the text ends it no sooner, so nothing of the text is read as a further
\* parameter or a further filter.
TextStaysQuoted ==
  cmd.pc = "built" /\ Len(cmd.overlays) = 1
    => QuoteEnd(cmd.filterComplex.graph, TextBegin)
         = TextBegin + Len(escapedText(cmd.overlays[1].text.chars))

\* Piece i of a filter graph is escaped when the backslashes that stand right
\* before it are odd in number: a backslash escapes the piece after it.
Escaped(graph, i) ==
  LET others == {j \in 0..(i - 1) : j = 0 \/ graph[j] # "\\"}
      last == CHOOSE j \in others : \A h \in others : h <= j
  IN (i - 1 - last) % 2 = 1

\* Piece i stands inside a quoted value when the quotes before it that are
\* not escaped are odd in number.
Quoted(graph, i) ==
  Cardinality({j \in 1..(i - 1) : graph[j] = "'" /\ ~Escaped(graph, j)}) % 2 = 1

\* The commas of a filter graph that end a filter: those outside the quoted
\* values, with both ends of the graph.
Ends(graph) ==
  {i \in 1..Len(graph) : graph[i] = "," /\ ~Escaped(graph, i) /\ ~Quoted(graph, i)}
    \cup {0, Len(graph) + 1}

\* The k-th smallest element of a set of numbers, counted from 0.
Nth(S, k) == CHOOSE e \in S : Cardinality({d \in S : d < e}) = k

\* The filters of a filter graph, as the encoder reads it.
Primitives(graph) ==
  [k \in 1..(Cardinality(Ends(graph)) - 1) |->
     SubSeq(graph, Nth(Ends(graph), k - 1) + 1, Nth(Ends(graph), k) - 1)]

\* The text that a draw-text primitive draws: the pieces between
\* drawtext=text=' and the quote that ends the value.
DrawnText(filter) == SubSeq(filter, TextBegin, QuoteEnd(filter, TextBegin) - 1)

\* C21: the filter graph of a built command holds exactly one draw-text
\* primitive per overlay, in the order of the list, separated by commas: its
\* k-th filter is a drawtext that draws the text of overlay k.  A command
\* with no overlay is given no filter graph.
OnePrimitivePerOverlay ==
  cmd.pc = "built"
    => IF cmd.overlays = <<>>
       THEN ~cmd.filterComplex.called
       ELSE /\ cmd.filterComplex.called
            /\ LET filters == Primitives(cmd.filterComplex.graph)
               IN /\ Len(filters) = Len(cmd.overlays)
                  /\ \A k \in 1..Len(filters) :
                       /\ SubSeq(filters[k], 1, 2) = <<"drawtext", "=">>
                       /\ DrawnText(filters[k]) = escapedText(cmd.overlays[k].text.chars)

\* The value of the parameter of the given name in a compiled filter: the
\* piece after :name=
ParamOf(filter, name) ==
  LET at == CHOOSE i \in 2..(Len(filter) - 2) :
              filter[i - 1] = ":" /\ filter[i] = name /\ filter[i + 1] = "="
  IN filter[at + 2]

\* The whole number nearest to a / b for a >= 0 and b > 0, the upper one of
\* two that are equally near.
Nearest(a, b) == CHOOSE n \in 0..a : 2 * b * n - b <= 2 * a /\ 2 * a < 2 * b * n + b

\* C22: the compiled filter of an overlay with 0 <= x, y <= 100 has x =
\* round(x / 100 * width), y = round(y / 100 * height) and fontsize =
\* round(fontSize * width / 400); at x 15, y 50 on a frame of 1920 by 1080
\* the position is (288, 540).
PositionScaled ==
  cmd.pc = "built" /\ Len(cmd.overlays) = 1
    => LET overlay == cmd.overlays[1]
           filter == cmd.filterComplex.graph
       IN overlay.x \in 0..100 /\ overlay.y \in 0..100
            => /\ ParamOf(filter, "x") = toString(Nearest(overlay.x * cmd.videoWidth, 100))
               /\ ParamOf(filter, "y") = toString(Nearest(overlay.y * cmd.videoHeight, 100))
               /\ ParamOf(filter, "fontsize")
                    = toString(Nearest(overlay.fontSize * cmd.videoWidth, 400))
               /\ /\ cmd.videoWidth = 1920 /\ cmd.videoHeight = 1080
                  /\ overlay.x = 15 /\ overlay.y = 50
                  => ParamOf(filter, "x") = "288" /\ ParamOf(filter, "y") = "540"

\* C22 witness: the command of an overlay at x 15, y 50 on a frame of 1920
\* by 1080 has been built, with the position (288, 540).
PositionScaledWitness ==
  /\ cmd.pc = "built"
  /\ cmd.videoWidth = 1920 /\ cmd.videoHeight = 1080
  /\ Len(cmd.overlays) = 1
  /\ cmd.overlays[1].x = 15 /\ cmd.overlays[1].y = 50
  /\ ParamOf(cmd.filterComplex.graph, "x") = "288"
  /\ ParamOf(cmd.filterComplex.graph, "y") = "540"

\* The times that a compiled window may hold.
WindowTimes == -1..8

\* The window of a compiled filter: the s and e of its last pieces,
\* enable='between(t,s,e)'
WindowOf(filter) ==
  LET n == Len(filter)
  IN CHOOSE w \in WindowTimes \X WindowTimes :
       SubSeq(filter, n - 8, n)
         = <<"enable", "=", "'", "between(t", ",", toString(w[1]), ",",
             toString(w[2]) \o ")", "'">>

\* C23: when the command of a job with a duration cap has been built, the
\* window compiled for every overlay is clamped to the cap: no window starts
\* or ends after the cap given to the encoder, whatever the times of the
\* submitted overlay.
WindowWithinCap ==
  cmd.pc = "built" /\ Positive(cmd.duration)
    => LET filters == Primitives(cmd.filterComplex.graph)
       IN \A k \in 1..Len(cmd.overlays) :
            /\ WindowOf(filters[k])[1] <= cmd.duration.n
            /\ WindowOf(filters[k])[2] <= cmd.duration.n

\* An overlay that violates the overlay invariants: a coordinate outside
\* 0..100, startTime < 0, startTime >= endTime or outlineWidth < 0.
Violates(overlay) ==
  \/ overlay.x < 0 \/ overlay.x > 100
  \/ overlay.y < 0 \/ overlay.y > 100
  \/ overlay.startTime < 0
  \/ overlay.startTime >= overlay.endTime
  \/ overlay.outlineWidth < 0

\* C24: the command of a job with an overlay that violates the overlay
\* invariants is never built: compiling the filters fails and the encoder is
\* not started.
InvalidOverlayFails ==
  (\E k \in 1..Len(cmd.overlays) : Violates(cmd.overlays[k]))
     /\ cmd.pc # "received"
    => cmd.pc = "threw" /\ ~cmd.filterComplex.called

\* VideoList: the values of fontOptions (lines 72-78), the font families the
\* editor knows; "Inter" is the default (line 60).
fontOptions == {"Inter", "Arial", "Helvetica", "Georgia", "Times New Roman"}

\* A compiled filter carries the parameter of the given name.
HasParam(filter, name) ==
  \E i \in 2..(Len(filter) - 2) :
    filter[i - 1] = ":" /\ filter[i] = name /\ filter[i + 1] = "="

\* C25: the compiled filter of an overlay carries a fontfile parameter only
\* when the overlay's font family is a known family other than the default:
\* with the default family, no family or a family that is not known, it
\* carries none.
FontFileOnlyKnown ==
  cmd.pc = "built" /\ Len(cmd.overlays) = 1
    => (HasParam(cmd.filterComplex.graph, "fontfile")
          => cmd.overlays[1].fontFamily \in fontOptions \ {"Inter"})

\* C26: when the removal of a job's input after the encoder's success has
\* been rejected, the caller is still told that the job succeeded, with its
\* output: the answer of a single submission is the success with the output
\* name, a batch item stands in the results.
RemoveFaultHidden ==
  \A r \in 1..Len(reqs) :
    LET rq == reqs[r]
    IN rq.pc = "done"
         => \A i \in 1..Len(rq.jobs) :
              rq.jobs[i].failedAt = "remove"
                => IF rq.kind = "single"
                   THEN /\ rq.response.status = 200
                        /\ rq.response.filename = rq.jobs[i].outputFilename
                   ELSE /\ rq.response.status = 200
                        /\ i \in ItemsOf(rq.results)
                        /\ i \notin ItemsOf(rq.errors)

\* The handler of the first submission has taken its jobs on.
Accepted == Len(reqs) >= 1 /\ reqs[1].jobs # <<>>

\* The call of the first submission has returned.
Returned == Len(reqs) >= 1 /\ reqs[1].pc = "done"

\* C27: a submission whose jobs have been accepted is eventually answered,
\* also when ffprobe or the encoder never signals success or error.
NeverBlocks == Accepted ~> Returned

\* The items of a submission whose probe or encoder has been started and
\* whose job is not yet terminal.
Running(rq) ==
  {i \in 1..Len(rq.jobs) : rq.jobs[i].probes > 0 /\ ~Terminal(rq.jobs[i])}

ItemsInParallel ==
  \A r \in Batches :
    LET rq == reqs[r]
    IN \A i \in 1..(Len(rq.jobs) - 1) :
         rq.jobs[i].state = "Encoding" /\ MetadataComplete(rq)
           => rq.jobs[i + 1].state # "Queued"

\* The states that a job in the given state may go to.  The filters are
\* compiled between the probe's answer and the start of the encoder, with no
\* step of its own.
After(state) ==
  CASE state = "Queued" -> {"Probing", "Failed"}
    [] state = "Probing" -> {"Encoding", "Failed"}
    [] state = "Encoding" -> {"Completed", "Failed"}
    [] OTHER -> {}

\* C30: every job goes through its states in the order Queued, Probing,
\* Encoding and then Completed or Failed, and stays in its terminal state;
\* the encoder is started once, and only for a job whose probe has found a
\* video stream and whose filters have compiled; a job whose probe fails or
\* finds no video stream becomes Failed with no encoder started.
JobStateOrder ==
  [][\A r \in 1..Len(reqs') : \A i \in 1..Len(reqs'[r].jobs) :
       LET new == reqs'[r].jobs[i]
           isOld == r <= Len(reqs) /\ i <= Len(reqs[r].jobs)
           old == reqs[r].jobs[i]
       IN /\ isOld /\ new.state # old.state => new.state \in After(old.state)
          /\ ~isOld => new.state \in {"Queued", "Probing"} /\ new.encodes = 0
          /\ isOld /\ new.encodes # old.encodes
               => /\ old.state = "Probing" /\ old.encodes = 0
                  /\ new.state = "Encoding" /\ new.probed = "ok"
          /\ new.state = "Probing" => new.probes = 1 /\ new.encodes = 0
          /\ new.state \in {"Encoding", "Completed"}
               => new.probed = "ok" /\ new.encodes = 1
          /\ new.probed \in {"error", "novideo"} \/ new.failedAt = "compile"
               => /\ new.encodes = 0
                  /\ new.state \in {"Probing", "Failed"}
                  /\ reqs'[r].pc = "done" => new.state = "Failed"]_vars

\* C30 witness: a batch has answered; one of its jobs is Completed, one has
\* failed at a probe that found no video stream and one at a probe that
\* raised an error.
JobStateOrderWitness ==
  \E r \in Batches :
    /\ reqs[r].pc = "done"
    /\ \E i \in 1..Len(reqs[r].jobs) :
         reqs[r].jobs[i].state = "Completed" /\ reqs[r].jobs[i].encodes = 1
    /\ \E i \in 1..Len(reqs[r].jobs) :
         reqs[r].jobs[i].state = "Failed" /\ reqs[r].jobs[i].probed = "novideo"
    /\ \E i \in 1..Len(reqs[r].jobs) :
         reqs[r].jobs[i].state = "Failed" /\ reqs[r].jobs[i].probed = "error"

\* The files of the two areas that are older than the retention window at
\* the time the running pass took.
Stale(f) == {p \in Areas(f) : AgeAtPass(f, p) > maxAge}

\* C31: a failure on one artifact does not stop a pass of the sweep: when a
\* pass ends, however it ends, every stale artifact of the two areas has
\* been deleted but those whose deletion was rejected.
PassSurvivesFailure ==
  [][sweep.pc # "idle" /\ sweep'.pc = "idle"
       => Cardinality(Stale(fs')) <= faults']_vars

\* C32: the job of item i of a batch runs on the i-th uploaded asset with the
\* name, the overlays and the maxDuration that the client holds for that
\* asset, and its output is named after that name; the result or the error of
\* item i carries that name.
ItemPaired ==
  \A r \in Batches :
    LET rq == reqs[r]
    IN /\ \A i \in 1..Len(rq.jobs) :
            /\ rq.jobs[i].inputPath = rq.files[i]
            /\ rq.jobs[i].probes > 0
                 => /\ rq.jobs[i].videoData = clientVideo(rq.names, i)
                    /\ \E n \in 1..nextUuid :
                         rq.jobs[i].outputFilename = outputFilenameOf(rq.names[i], n)
       /\ \A k \in 1..Len(rq.results) :
            rq.results[k].originalName = rq.names[rq.results[k].idx]
       /\ \A k \in 1..Len(rq.errors) :
            rq.errors[k].originalName = rq.names[rq.errors[k].idx]

\* C32 witness: a batch of three assets has answered, with the second item
\* among the errors and the third among the results.
ItemPairedWitness ==
  \E r \in Batches :
    /\ reqs[r].pc = "done"
    /\ Len(reqs[r].jobs) = 3
    /\ 2 \in ItemsOf(reqs[r].errors)
    /\ 3 \in ItemsOf(reqs[r].results)

\* C33: the compiled filter of an overlay carries the border width and the
\* border color, those of the overlay, if and only if the overlay's
\* outlineWidth is greater than 0; otherwise it carries neither.
OutlineIffPositive ==
  cmd.pc = "built" /\ Len(cmd.overlays) = 1
    => LET overlay == cmd.overlays[1]
           filter == cmd.filterComplex.graph
       IN IF overlay.outlineWidth > 0
          THEN /\ HasParam(filter, "borderw") /\ HasParam(filter, "bordercolor")
               /\ ParamOf(filter, "borderw") = toString(overlay.outlineWidth)
               /\ ParamOf(filter, "bordercolor") = overlay.outlineColor
          ELSE ~HasParam(filter, "borderw") /\ ~HasParam(filter, "bordercolor")

\* C33 witness: the filter of an overlay with a negative outlineWidth has
\* been compiled, without a border.
OutlineIffPositiveWitness ==
  /\ cmd.pc = "built"
  /\ Len(cmd.overlays) = 1
  /\ cmd.overlays[1].outlineWidth < 0
  /\ ~HasParam(cmd.filterComplex.graph, "borderw")

RECURSIVE unescape(_)
\* The unescaped form of a text: what line 60 adds is taken away, the
\* backslash before a quote and before a colon.
unescape(text) ==
  IF text = <<>> THEN <<>>
  ELSE IF Len(text) >= 2 /\ text[1] = "\\" /\ text[2] \in {"'", ":"}
  THEN <<text[2]>> \o unescape(SubSeq(text, 3, Len(text)))
  ELSE <<text[1]>> \o unescape(SubSeq(text, 2, Len(text)))

SweepIdempotent ==
  [][sweep.completed => fs' = fs /\ dels' = dels]_vars

\* C35 witness: a second pass has gone through both directories after a
\* pass that ran to its end; a file was deleted and a file is left.
SweepIdempotentWitness ==
  /\ sweep.completed
  /\ sweep.pc = "uploads" /\ sweep.listing = {}
  /\ \E p \in DOMAIN dels : dels[p].sweep > 0
  /\ Areas(fs) # {}


\* C36: whatever the editor has done to a video (the overlay made for it,
\* the handles of the timeline dragged, the two time fields edited, the limit
\* changed), every overlay of the video has 0 <= startTime < endTime.
TimesOrdered ==
  ed.pc = "open" =>
    \A k \in 1..Len(ed.videos) :
      \A o \in 1..Len(ed.videos[k].textOverlays) :
        /\ 0 <= ed.videos[k].textOverlays[o].startTime
        /\ ed.videos[k].textOverlays[o].startTime < ed.videos[k].textOverlays[o].endTime


\* The calls of handleMultiExport that have sent their videos and wait for
\* the answer.
InFlight == {c \in 1..Len(ed.exports) : ed.exports[c].pc = "export"}

\* C37: at most one export of the editor is in flight at any time, also when
\* the button is clicked again while the status check of the first call is
\* pending; and isExporting is false when no export is in flight.
OneExportInFlight ==
  ed.pc = "open" =>
    /\ Cardinality(InFlight) <= 1
    /\ InFlight = {} => ~ed.isExporting


\* C38: of every export that the server has answered, when the editor took
\* the maxDuration it was started with for a limit (a value below 300
\* seconds), the encoder of each of its videos was given that limit as its
\* duration, and when the editor took it for no limit the encoder was given
\* none.
CapAgrees ==
  ed.pc = "open" =>
    \A c \in 1..Len(ed.exports) :
      ed.exports[c].pc = "exported" =>
        \A k \in 1..Len(ed.exports[c].durations) :
          ed.exports[c].durations[k] =
            IF ed.exports[c].maxDuration < noLimit
            THEN Num(ed.exports[c].maxDuration)
            ELSE undefined


\* The current index is one of the indices of the list, which count from 0.
IndexValid(e) ==
  Len(e.videos) > 0 => e.currentVideoIndex \in 0..(Len(e.videos) - 1)

\* The id of the current video.
Selected(e) == e.videos[e.currentVideoIndex + 1].id

\* C39: after every upload, removal and selection the current index is an
\* index of the list when the list is not empty, and a removal of a video
\* that is not the current one leaves the same video the current one.
CurrentStaysValid ==
  [][/\ IndexValid(ed')
     /\ (/\ Len(ed'.videos) < Len(ed.videos)
         /\ indexOf(ed'.videos, Selected(ed)) > 0) => Selected(ed') = Selected(ed)]_vars

\* C39 witness: the first of three videos has been removed and the third, now
\* the second of the list, is the current one.
CurrentStaysValidWitness ==
  /\ ed.pc = "open"
  /\ Len(ed.videos) = 2
  /\ ed.videos[1].id = 2 /\ ed.videos[2].id = 3
  /\ ed.currentVideoIndex = 1

====
